---- MODULE Spec2Model ----
(***************************************************************************)
(* Credential Matcher Core: the DCQL query engine (dcql.cpp, paths.cpp),   *)
(* the catalog loader (CredentialDatabase.cpp) and the `matcher` entry     *)
(* point (matcher.cpp), the picker emitter of a combination and the CBOR   *)
(* decoder and encoder (cppbor), as state machines over bounded inputs.    *)
(***************************************************************************)
EXTENDS Integers, Sequences, FiniteSets, TLC

VARIABLES
    pc,                          \* position of the invocation
    credentialDatabase,          \* CredentialDatabase: protocols, credentials
    dcqlQuery,                   \* DcqlQuery under evaluation
    credentialQueryIdToResponse, \* local map of DcqlQuery::execute (Stage 1)
    dcqlResponse,                \* std::optional<DcqlResponse>
    consolidatedCredentialSets,  \* local of getCredentialCombinations
    pathCombinations,            \* local of getCredentialCombinations
    combinations,                \* std::vector<Combination>
    catalogBlob,                 \* what cppbor::parse makes of the catalog bytes
    requests,                    \* the "requests" array of the envelope
    n,                           \* loop index of matcher()
    documentIdsAlreadyUsed,      \* std::set<std::string> of matcher()
    pickerCalls,                 \* calls made to the host picker, in order
    combination,                 \* the Combination addToCredmanPicker runs on
    emitterRequest,              \* the Request given to addToCredmanPicker
    credmanRuntimeVersion,       \* what GetWasmVersion reports
    buffer,                      \* the input range [begin, end) of cppbor::parse
    sizeBits,                    \* width of size_t and ssize_t in the build
    pos,                         \* read position of the decoder, offset from begin
    mParentStack,                \* open compound items, with their handleEntries loops
    mTheItem,                    \* FullParseClient::mTheItem
    mPosition,                   \* FullParseClient::mPosition, offset from begin
    mErrorMessage,               \* FullParseClient::mErrorMessage
    theMap,                      \* the Map canonicalize is called on
    mCanonicalized,              \* Map::mCanonicalized of that map
    mdocRequest,                 \* the MdocRequest the mdoc matcher has parsed
    callbacks                    \* the ParseClient methods a streaming parse has called

vars == <<pc, credentialDatabase, dcqlQuery, credentialQueryIdToResponse,
          dcqlResponse, consolidatedCredentialSets, pathCombinations,
          combinations, catalogBlob, requests, n, documentIdsAlreadyUsed,
          pickerCalls, combination, emitterRequest, credmanRuntimeVersion, buffer,
          sizeBits, pos, mParentStack, mTheItem, mPosition, mErrorMessage,
          theMap, mCanonicalized, callbacks, mdocRequest>>

dcqlVars == <<credentialDatabase, dcqlQuery, credentialQueryIdToResponse,
              dcqlResponse, consolidatedCredentialSets, pathCombinations,
              combinations>>

matcherVars == <<catalogBlob, requests, n, documentIdsAlreadyUsed, pickerCalls,
                 mdocRequest>>

emitterVars == <<combination, emitterRequest, credmanRuntimeVersion>>

cborVars == <<buffer, sizeBits, pos, mParentStack, mTheItem, mPosition,
              mErrorMessage, theMap, mCanonicalized, callbacks>>

(***************************************************************************)
(* Bounds of the model.                                                    *)
(***************************************************************************)
MaxCreds == 2        \* credentials in a catalog
MaxClaims == 2       \* requested claims in a credential query
MaxSets == 2         \* credential sets in a query / in a response
MaxRequests == 2     \* request objects in an envelope

(***************************************************************************)
(* Generic helpers.                                                        *)
(***************************************************************************)
SeqsUpTo(S, k) == UNION {[1..m -> S] : m \in 0..k}

Contains(s, x) == \E i \in 1..Len(s) : s[i] = x

RECURSIVE Flatten(_)
Flatten(ss) == IF ss = <<>> THEN <<>> ELSE Head(ss) \o Flatten(Tail(ss))

\* the null pointer, as a claim pointer
NullPtr == "<nullptr>"

(***************************************************************************)
(* dcql.h: DcqlRequestedClaim::joinPath                                    *)
(***************************************************************************)
RECURSIVE joinPathFrom(_, _, _)
joinPathFrom(path, i, ret) ==
    IF i > Len(path) THEN ret
    ELSE joinPathFrom(path, i + 1,
                      IF ret # "" THEN ret \o "." \o path[i] ELSE path[i])

joinPath(path) == joinPathFrom(path, 1, "")

(***************************************************************************)
(* CredentialDatabase.cpp: Credential::findMatchingClaim.  A Claim* is the *)
(* key of the entry in the credential's claims map, or NullPtr.            *)
(***************************************************************************)
\* mutant: the value matching is left out
findMatchingClaimNoValues(cred, requestedClaim) ==
    LET joinedPath == joinPath(requestedClaim.path) IN
    IF joinedPath \notin DOMAIN cred.claims THEN NullPtr ELSE joinedPath

findMatchingClaim(cred, requestedClaim) ==
    LET joinedPath == joinPath(requestedClaim.path) IN
    IF joinedPath \notin DOMAIN cred.claims THEN NullPtr
    ELSE IF requestedClaim.values # <<>>
            /\ ~Contains(requestedClaim.values, cred.claims[joinedPath].matchValue)
         THEN NullPtr
         ELSE joinedPath

(***************************************************************************)
(* dcql.cpp: DcqlCredentialQuery::findRequestedClaim.  Returns the index   *)
(* of the first requested claim with that id, 0 for nullptr.               *)
(***************************************************************************)
RECURSIVE findRequestedClaimFrom(_, _, _)
findRequestedClaimFrom(requestedClaims, claimId, i) ==
    IF i > Len(requestedClaims) THEN 0
    ELSE IF requestedClaims[i].id = claimId THEN i
    ELSE findRequestedClaimFrom(requestedClaims, claimId, i + 1)

findRequestedClaim(query, claimId) ==
    findRequestedClaimFrom(query.requestedClaims, claimId, 1)

(***************************************************************************)
(* dcql.cpp: DcqlQuery::execute, Stage 1.                                  *)
(***************************************************************************)
\* the format/meta filter of one credential (dcql.cpp 208-216)
satisfiesMeta(query, cred) ==
    IF query.format = "mso_mdoc" \/ query.format = "mso_mdoc_zk"
    THEN cred.mdocDocType = query.mdocDocType
    ELSE IF query.format = "dc+sd-jwt"
         THEN Contains(query.vctValues, cred.vcVct)
         ELSE FALSE

\* indices of the credentials that pass the filter, in catalog order
credsSatifyingMeta(query, db) ==
    SelectSeq([i \in 1..Len(db.credentials) |-> i],
              LAMBDA i : satisfiesMeta(query, db.credentials[i]))

\* the loop over query.requestedClaims (dcql.cpp 224-233)
RECURSIVE matchRequestedClaims(_, _, _, _)
matchRequestedClaims(cred, requestedClaims, i, matchingClaimValues) ==
    IF i > Len(requestedClaims)
    THEN [didNotMatch |-> FALSE, matchingClaimValues |-> matchingClaimValues]
    ELSE LET matchingCredentialClaim == findMatchingClaim(cred, requestedClaims[i]) IN
         IF matchingCredentialClaim # NullPtr
         THEN matchRequestedClaims(cred, requestedClaims, i + 1,
                                   Append(matchingClaimValues, matchingCredentialClaim))
         ELSE [didNotMatch |-> TRUE, matchingClaimValues |-> matchingClaimValues]

\* the loop over claimSet.claimIdentifiers (dcql.cpp 246-259)
RECURSIVE matchClaimSet(_, _, _, _, _)
matchClaimSet(cred, query, claimIdentifiers, i, matchingClaimValues) ==
    IF i > Len(claimIdentifiers)
    THEN [didNotMatch |-> FALSE, matchingClaimValues |-> matchingClaimValues]
    ELSE LET requestedClaim == findRequestedClaim(query, claimIdentifiers[i]) IN
         IF requestedClaim = 0
         THEN [didNotMatch |-> TRUE, matchingClaimValues |-> matchingClaimValues]
         ELSE LET matchingCredentialClaim ==
                      findMatchingClaim(cred, query.requestedClaims[requestedClaim]) IN
              IF matchingCredentialClaim # NullPtr
              THEN matchClaimSet(cred, query, claimIdentifiers, i + 1,
                                 Append(matchingClaimValues, matchingCredentialClaim))
              ELSE [didNotMatch |-> TRUE, matchingClaimValues |-> matchingClaimValues]

\* mutant: the loop over the claim sets without its break
RECURSIVE matchClaimSetsNoBreak(_, _, _, _)
matchClaimSetsNoBreak(credIdx, cred, query, s) ==
    IF s > Len(query.claimSets) THEN <<>>
    ELSE LET r == matchClaimSet(cred, query, query.claimSets[s], 1, <<>>) IN
         (IF ~r.didNotMatch
          THEN <<[credential |-> credIdx, claims |-> r.matchingClaimValues]>>
          ELSE <<>>) \o matchClaimSetsNoBreak(credIdx, cred, query, s + 1)

\* the loop over query.claimSets with its break (dcql.cpp 243-268): the
\* matches this credential adds (none or one)
RECURSIVE matchClaimSets(_, _, _, _)
matchClaimSets(credIdx, cred, query, s) ==
    IF s > Len(query.claimSets) THEN <<>>
    ELSE LET r == matchClaimSet(cred, query, query.claimSets[s], 1, <<>>) IN
         IF ~r.didNotMatch
         THEN <<[credential |-> credIdx, claims |-> r.matchingClaimValues]>>
         ELSE matchClaimSets(credIdx, cred, query, s + 1)

\* the body of the loop over credsSatifyingMeta (dcql.cpp 220-270)
matchCredential(credIdx, cred, query) ==
    IF Len(query.claimSets) = 0
    THEN LET r == matchRequestedClaims(cred, query.requestedClaims, 1, <<>>) IN
         IF ~r.didNotMatch
         THEN <<[credential |-> credIdx, claims |-> r.matchingClaimValues]>>
         ELSE <<>>
    ELSE matchClaimSets(credIdx, cred, query, 1)

\* the matches of one credential query (dcql.cpp 206-270)
queryMatches(query, db) ==
    LET sat == credsSatifyingMeta(query, db) IN
    Flatten([k \in 1..Len(sat) |->
                 matchCredential(sat[k], db.credentials[sat[k]], query)])

\* credentialQueryIdToResponse after the loop over the credential queries
\* (dcql.cpp 204-272): a later query with the same id overwrites the entry
RECURSIVE stage1From(_, _, _, _)
stage1From(query, db, i, map) ==
    IF i > Len(query.dcqlCredentialQueries) THEN map
    ELSE LET q == query.dcqlCredentialQueries[i]
             entry == [query |-> i, matches |-> queryMatches(q, db)]
         IN stage1From(query, db, i + 1,
                       [id \in DOMAIN map \cup {q.id} |->
                            IF id = q.id THEN entry ELSE map[id]])

stage1(query, db) == stage1From(query, db, 1, <<>>)

(***************************************************************************)
(* dcql.cpp: DcqlQuery::execute, Stage 2.                                  *)
(***************************************************************************)
KeyOrderIgnoringCase == <<"10", "9", "A", "a", "B", "C", "E">>

\* std::less<std::string> on the credential-query ids of the model: the
\* ids in ascending byte-wise order ('1' is 0x31, '9' 0x39, 'A' 0x41,
\* 'a' 0x61)
KeyOrder == <<"10", "9", "A", "B", "C", "E", "a">>

\* the keys of a std::map in iteration order
mapKeys(map) == SelectSeq(KeyOrder, LAMBDA k : k \in DOMAIN map)

\* std::optional<DcqlResponse>
nullopt == [has_value |-> FALSE, credentialSets |-> <<>>]

DcqlResponse(credentialSets) == [has_value |-> TRUE, credentialSets |-> credentialSets]

CredentialSetOptionIsKnown(option, map) ==
    \A i \in 1..Len(option) : option[i] \in DOMAIN map

CredentialSetOptionIsSatisfied(option, map) ==
    \A i \in 1..Len(option) :
        option[i] \in DOMAIN map /\ map[option[i]].matches # <<>>

\* mutant: a credential query without matches is skipped
RECURSIVE executeNoSetsSkipEmpty(_, _, _, _)
executeNoSetsSkipEmpty(map, keys, i, credentialSets) ==
    IF i > Len(keys) THEN DcqlResponse(credentialSets)
    ELSE IF map[keys[i]].matches = <<>>
         THEN executeNoSetsSkipEmpty(map, keys, i + 1, credentialSets)
    ELSE executeNoSetsSkipEmpty(map, keys, i + 1,
             Append(credentialSets,
                    [optional |-> FALSE,
                     options |-> <<[members |-> <<[matches |-> map[keys[i]].matches]>>]>>]))

\* the branch for a query without credential_sets (dcql.cpp 274-299)
RECURSIVE executeNoSetsFrom(_, _, _, _)
executeNoSetsFrom(map, keys, i, credentialSets) ==
    IF i > Len(keys) THEN DcqlResponse(credentialSets)
    ELSE IF map[keys[i]].matches = <<>> THEN nullopt
    ELSE executeNoSetsFrom(map, keys, i + 1,
             Append(credentialSets,
                    [optional |-> FALSE,
                     options |-> <<[members |-> <<[matches |-> map[keys[i]].matches]>>]>>]))

\* mutant: only the most preferred satisfied option is kept
satisfiedOptionsFirstOnly(csq, map) ==
    LET sat == SelectSeq(csq.options,
                         LAMBDA option : CredentialSetOptionIsSatisfied(option, map))
    IN [k \in 1..(IF sat = <<>> THEN 0 ELSE 1) |->
           [members |-> [m \in 1..Len(sat[k]) |-> [matches |-> map[sat[k][m]].matches]]]]

\* the options of one credential set query that are satisfied (dcql.cpp 316-326)
satisfiedOptions(csq, map) ==
    LET sat == SelectSeq(csq.options,
                         LAMBDA option : CredentialSetOptionIsSatisfied(option, map))
    IN [k \in 1..Len(sat) |->
           [members |-> [m \in 1..Len(sat[k]) |-> [matches |-> map[sat[k][m]].matches]]]]

RECURSIVE executeSetsKeepingUnsatisfied(_, _, _, _)
executeSetsKeepingUnsatisfied(query, map, i, credentialSets) ==
    IF i > Len(query.dcqlCredentialSetQueries) THEN DcqlResponse(credentialSets)
    ELSE LET csq == query.dcqlCredentialSetQueries[i]
         IN executeSetsKeepingUnsatisfied(query, map, i + 1,
                Append(credentialSets,
                       [optional |-> ~csq.required,
                        options |-> satisfiedOptions(csq, map)]))

\* the loop over dcqlCredentialSetQueries (dcql.cpp 309-336)
RECURSIVE executeSetsFrom(_, _, _, _)
executeSetsFrom(query, map, i, credentialSets) ==
    IF i > Len(query.dcqlCredentialSetQueries) THEN DcqlResponse(credentialSets)
    ELSE LET csq == query.dcqlCredentialSetQueries[i]
             options == satisfiedOptions(csq, map)
             satisfiedCsq == options # <<>>
         IN IF ~satisfiedCsq /\ csq.required THEN nullopt
            ELSE executeSetsFrom(query, map, i + 1,
                     Append(credentialSets,
                            [optional |-> ~csq.required, options |-> options]))

execute(query, db) ==
    LET map == stage1(query, db) IN
    IF query.dcqlCredentialSetQueries = <<>>
    THEN executeNoSetsFrom(map, mapKeys(map), 1, <<>>)
    ELSE executeSetsFrom(query, map, 1, <<>>)

(***************************************************************************)
(* dcql.cpp: DcqlResponseCredentialSet::consolidateSingleMemberOptions     *)
(***************************************************************************)
\* mutant: the synthesized option is appended after the other options
consolidateAppendingSynthesized(credentialSet) ==
    LET options == credentialSet.options
        nonSingleMemberOptions == SelectSeq(options, LAMBDA o : Len(o.members) # 1)
        singleMemberOptions == SelectSeq(options, LAMBDA o : Len(o.members) = 1)
        singleMemberMatches ==
            Flatten([k \in 1..Len(singleMemberOptions) |->
                         singleMemberOptions[k].members[1].matches])
    IN IF Len(singleMemberOptions) <= 1 THEN credentialSet
       ELSE [optional |-> credentialSet.optional,
             options |-> nonSingleMemberOptions
                         \o <<[members |-> <<[matches |-> singleMemberMatches]>>]>>]

consolidateSingleMemberOptions(credentialSet) ==
    LET options == credentialSet.options
        nonSingleMemberOptions == SelectSeq(options, LAMBDA o : Len(o.members) # 1)
        singleMemberOptions == SelectSeq(options, LAMBDA o : Len(o.members) = 1)
        singleMemberMatches ==
            Flatten([k \in 1..Len(singleMemberOptions) |->
                         singleMemberOptions[k].members[1].matches])
        numSingleMemberOptions == Len(singleMemberOptions)
    IN IF numSingleMemberOptions <= 1 THEN credentialSet
       ELSE [optional |-> credentialSet.optional,
             options |-> <<[members |-> <<[matches |-> singleMemberMatches]>>]>>
                         \o nonSingleMemberOptions]

consolidateCredentialSets(response) ==
    [i \in 1..Len(response.credentialSets) |->
         consolidateSingleMemberOptions(response.credentialSets[i])]

(***************************************************************************)
(* paths.cpp: generate, generateAllPaths.  Paths hold 0-based option       *)
(* indices, as in the code.                                                *)
(***************************************************************************)
\* mutant: the loop runs from the highest value down
RECURSIVE generateDescending(_, _, _)
generateDescending(index, currentPath, maxPath) ==
    IF index = Len(maxPath) THEN <<currentPath>>
    ELSE Flatten([v \in 1..maxPath[index + 1] |->
                     generateDescending(index + 1,
                              [j \in 1..Len(currentPath) |->
                                   IF j = index + 1 THEN maxPath[index + 1] - v
                                   ELSE currentPath[j]],
                              maxPath)])

\* the paths one call of generate() appends to allPaths, in order: the
\* loop sets currentPath[index] to each value in turn and recurses; a
\* complete path is copied as it stands
RECURSIVE generate(_, _, _)
generate(index, currentPath, maxPath) ==
    IF index = Len(maxPath) THEN <<currentPath>>
    ELSE Flatten([v \in 1..maxPath[index + 1] |->
                     generate(index + 1,
                              [j \in 1..Len(currentPath) |->
                                   IF j = index + 1 THEN v - 1 ELSE currentPath[j]],
                              maxPath)])

\* std::vector<int> currentPath(maxPath.size(), 0)
RECURSIVE zeroPath(_)
zeroPath(size) == IF size = 0 THEN <<>> ELSE Append(zeroPath(size - 1), 0)

generateAllPaths(maxPath) ==
    IF maxPath = <<>> THEN << <<>> >>
    ELSE generate(0, zeroPath(Len(maxPath)), maxPath)

(***************************************************************************)
(* dcql.cpp: DcqlResponse::getCredentialCombinations                       *)
(***************************************************************************)
\* mutant: the extra path of an optional set is forgotten
maxPathIgnoringOptional(credentialSet) == Len(credentialSet.options)

\* arity of one consolidated credential set (dcql.cpp 386)
maxPathOf(credentialSet) ==
    Len(credentialSet.options) + (IF credentialSet.optional THEN 1 ELSE 0)

maxPaths(sets) == [i \in 1..Len(sets) |-> maxPathOf(sets[i])]

\* the elements one credential set adds for a path (dcql.cpp 395-406)
elementsOfSet(credentialSet, choice) ==
    LET omitDocumentSet == (choice = Len(credentialSet.options)) IN
    IF omitDocumentSet THEN <<>>
    ELSE LET option == credentialSet.options[choice + 1] IN
         [m \in 1..Len(option.members) |-> [matches |-> option.members[m].matches]]

elementsOfPath(sets, pathCombination) ==
    Flatten([s \in 1..Len(sets) |-> elementsOfSet(sets[s], pathCombination[s])])

\* the combinations for the paths, numbered by `number++` (dcql.cpp 390-410)
combinationsOf(sets, paths) ==
    [i \in 1..Len(paths) |->
         [combinationNumber |-> i - 1, elements |-> elementsOfPath(sets, paths[i])]]

(***************************************************************************)
(* Inputs of the DCQL engine: catalogs and queries.                        *)
(***************************************************************************)
ClaimWith(matchValue) ==
    [displayName |-> "Name", value |-> "Value", matchValue |-> matchValue]

\* credentials as the loader builds them: an mdoc, one with both
\* projections, an SD-JWT VC; all claims share one flat map
CredKinds ==
    { [title |-> "T1", documentId |-> "doc1", mdocDocType |-> "mDL", vcVct |-> "",
       claims |-> ("ns.a" :> ClaimWith("1") @@ "ns.b" :> ClaimWith("2"))],
      [title |-> "T2", documentId |-> "doc2", mdocDocType |-> "mDL", vcVct |-> "pid",
       claims |-> ("ns.a" :> ClaimWith("2"))],
      [title |-> "T3", documentId |-> "doc3", mdocDocType |-> "", vcVct |-> "pid",
       claims |-> ("ns.a" :> ClaimWith("1") @@ "ns.b" :> ClaimWith("1"))] }

DcqlCatalogs ==
    {[protocols |-> <<"openid4vp">>, credentials |-> cs] : cs \in SeqsUpTo(CredKinds, MaxCreds)}

EmptyCatalog == [protocols |-> <<>>, credentials |-> <<>>]

\* path and values of a requested claim
ClaimShapes ==
    [path : {<<"ns", "a">>, <<"ns", "b">>}, values : {<<>>, <<"3", "1">>}]

\* ids given to the requested claims by position; "z" is never a claim id
ClaimIds == <<"x", "y", "w", "v">>

RequestedClaimLists ==
    { [i \in 1..Len(shapes) |->
          [id |-> IF withIds THEN ClaimIds[i] ELSE "",
           path |-> shapes[i].path,
           values |-> shapes[i].values,
           intentToRetain |-> FALSE]] :
      shapes \in SeqsUpTo(ClaimShapes, MaxClaims), withIds \in BOOLEAN }

ClaimSetLists ==
    { <<>>,
      << <<"x">> >>,
      << <<"x", "y">>, <<"y">> >>,
      << <<"z">>, <<"x">> >>,
      << <<"y", "x">> >>,
      << <<>> >> }

\* DcqlQuery::parse sets mdocDocType for the mdoc formats and vctValues
\* for dc+sd-jwt only
CredentialQuery(id, format, requestedClaims, claimSets) ==
    [id |-> id, format |-> format,
     mdocDocType |-> IF format \in {"mso_mdoc", "mso_mdoc_zk"} THEN "mDL" ELSE "",
     vctValues |-> IF format = "dc+sd-jwt" THEN <<"other", "pid">> ELSE <<>>,
     requestedClaims |-> requestedClaims,
     claimSets |-> claimSets]

\* queries with one credential query and no credential_sets
ClaimQueries ==
    { [dcqlCredentialQueries |-> <<CredentialQuery("A", format, rcs, css)>>,
       dcqlCredentialSetQueries |-> <<>>] :
      format \in {"mso_mdoc", "dc+sd-jwt"},
      rcs \in RequestedClaimLists, css \in ClaimSetLists }

\* A is matched by doc1 and doc2, B by doc3, C (unknown format) by nothing
RequestedClaimsOfA ==
    <<[id |-> "", path |-> <<"ns", "a">>, values |-> <<>>, intentToRetain |-> FALSE]>>

RequestedClaimsOfB ==
    <<[id |-> "", path |-> <<"ns", "a">>, values |-> <<"3", "1">>, intentToRetain |-> FALSE],
      [id |-> "", path |-> <<"ns", "b">>, values |-> <<>>, intentToRetain |-> FALSE]>>

QueryA == CredentialQuery("A", "mso_mdoc_zk", RequestedClaimsOfA, <<>>)

QueryB == CredentialQuery("B", "dc+sd-jwt", RequestedClaimsOfB, <<>>)

QueryC == CredentialQuery("C", "jwt_vc_json", <<>>, <<>>)

OptionLists ==
    { <<>>,
      << <<"A">> >>,
      << <<"A", "B">>, <<"A">> >>,
      << <<"A">>, <<"B">> >>,
      << <<"B">>, <<"A", "B">>, <<"A">> >>,
      << <<"C">>, <<"B">> >> }

CredentialSetQueries == [required : BOOLEAN, options : OptionLists]

\* queries with two or three credential queries, with and without credential_sets
SetQueries ==
    { [dcqlCredentialQueries |-> <<QueryA, QueryB>>, dcqlCredentialSetQueries |-> csqs] :
      csqs \in SeqsUpTo(CredentialSetQueries, MaxSets) }
    \cup
    { [dcqlCredentialQueries |-> qs, dcqlCredentialSetQueries |-> <<>>] :
      qs \in {<<>>, <<QueryB, QueryA>>, <<QueryC, QueryA>>} }

DcqlQueries == ClaimQueries \cup SetQueries

EmptyQuery == [dcqlCredentialQueries |-> <<>>, dcqlCredentialSetQueries |-> <<>>]

(***************************************************************************)
(* Responses given to getCredentialCombinations directly: every shape of   *)
(* DcqlResponse, also those execute never builds (a required set without   *)
(* options, an option without members).                                    *)
(***************************************************************************)
Match1 == [credential |-> 1, claims |-> <<"ns.a">>]

Match2 == [credential |-> 2, claims |-> <<"ns.a", "ns.b">>]

Match3 == [credential |-> 3, claims |-> <<>>]

Option1 == [members |-> <<[matches |-> <<Match1>>]>>]

Option2 == [members |-> <<[matches |-> <<Match2, Match3>>]>>]

Option12 == [members |-> <<[matches |-> <<Match1>>], [matches |-> <<Match2, Match3>>]>>]

Option0 == [members |-> <<>>]

ResponseOptionLists ==
    { <<>>,
      <<Option1>>,
      <<Option12>>,
      <<Option2, Option1>>,
      <<Option12, Option1, Option2>>,
      <<Option2, Option12, Option0, Option1>>,
      <<Option0, Option1>>,
      <<Option1, Option2, Option1>> }

ResponseCredentialSets == [optional : BOOLEAN, options : ResponseOptionLists]

Responses == {DcqlResponse(sets) : sets \in SeqsUpTo(ResponseCredentialSets, MaxSets)}

(***************************************************************************)
(* The DCQL engine as a state machine: a query is executed against the     *)
(* catalog, then the combinations of the response are enumerated.          *)
(***************************************************************************)
\* the emitter is not running
EmitterIdle ==
    /\ combination = [combinationNumber |-> 0, elements |-> <<>>]
    /\ emitterRequest = ""
    /\ credmanRuntimeVersion = 0

\* no parse and no canonicalization is running
\* cppbor.h Item, as the decoder builds it from bytes: the major type, the
\* header's value (its significant bytes, most significant first) and the
\* content:
\* the bytes of a string, the items of an array, the <<key, value>> pairs
\* of a map, the tagged item of a semantic tag
Item(type, value, content) == [type |-> type, value |-> value, content |-> content]

\* a std::unique_ptr<Item> that holds nothing
NoItem == Item("nullptr", <<>>, <<>>)

CborIdle ==
    /\ buffer = <<>>
    /\ sizeBits = 64
    /\ pos = 0
    /\ mParentStack = <<>>
    /\ mTheItem = NoItem
    /\ mPosition = 0
    /\ mErrorMessage = [text |-> "", bytesNeeded |-> <<>>, type |-> "", bytesAvail |-> 0]
    /\ theMap = NoItem
    /\ mCanonicalized = FALSE
    /\ callbacks = <<>>

\* struct MdocRequest before anything is parsed into it
NoMdocRequest == [docType |-> "", dataElements |-> <<>>]

MatcherIdle ==
    /\ mdocRequest = NoMdocRequest
    /\ catalogBlob = [ok |-> FALSE, item |-> "none"]
    /\ requests = <<>>
    /\ n = 0
    /\ documentIdsAlreadyUsed = {}
    /\ pickerCalls = <<>>

InitDcql ==
    /\ pc = "query"
    /\ credentialDatabase \in DcqlCatalogs
    /\ dcqlQuery \in DcqlQueries
    /\ credentialQueryIdToResponse = <<>>
    /\ dcqlResponse = nullopt
    /\ consolidatedCredentialSets = <<>>
    /\ pathCombinations = <<>>
    /\ combinations = <<>>
    /\ MatcherIdle
    /\ EmitterIdle
    /\ CborIdle

\* DcqlQuery::execute
Execute ==
    /\ pc = "query"
    /\ pc' = "executed"
    /\ credentialQueryIdToResponse' = stage1(dcqlQuery, credentialDatabase)
    /\ dcqlResponse' = execute(dcqlQuery, credentialDatabase)
    /\ UNCHANGED <<credentialDatabase, dcqlQuery, consolidatedCredentialSets,
                   pathCombinations, combinations>>
    /\ UNCHANGED matcherVars
    /\ UNCHANGED <<emitterVars, cborVars>>

\* DcqlResponse::getCredentialCombinations
GetCredentialCombinations ==
    /\ pc = "executed"
    /\ dcqlResponse.has_value
    /\ pc' = "combined"
    /\ LET sets == consolidateCredentialSets(dcqlResponse)
           paths == generateAllPaths(maxPaths(sets))
       IN /\ consolidatedCredentialSets' = sets
          /\ pathCombinations' = paths
          /\ combinations' = combinationsOf(sets, paths)
    /\ UNCHANGED <<credentialDatabase, dcqlQuery, credentialQueryIdToResponse,
                   dcqlResponse>>
    /\ UNCHANGED matcherVars
    /\ UNCHANGED <<emitterVars, cborVars>>

NextDcql == Execute \/ GetCredentialCombinations

SpecDcql == InitDcql /\ [][NextDcql]_vars

\* getCredentialCombinations on any response
InitCombos ==
    /\ pc = "executed"
    /\ credentialDatabase = EmptyCatalog
    /\ dcqlQuery = EmptyQuery
    /\ credentialQueryIdToResponse = <<>>
    /\ dcqlResponse \in Responses
    /\ consolidatedCredentialSets = <<>>
    /\ pathCombinations = <<>>
    /\ combinations = <<>>
    /\ MatcherIdle
    /\ EmitterIdle
    /\ CborIdle

NextCombos == GetCredentialCombinations

SpecCombos == InitCombos /\ [][NextCombos]_vars

(***************************************************************************)
(* cppbor.h: the item tree cppbor::parse returns, and its accessors.  An   *)
(* item is a record; a std::unique_ptr<Item> that holds nothing is         *)
(* NullItem.  A byte string carries, in items, what cppbor::parse makes of *)
(* its bytes (nothing when they do not decode).                            *)
(***************************************************************************)
NullItem == [t |-> "nullptr", s |-> "", items |-> <<>>, entries |-> <<>>]

Tstr(s) == [t |-> "tstr", s |-> s, items |-> <<>>, entries |-> <<>>]

Bstr(embedded) == [t |-> "bstr", s |-> "", items |-> embedded, entries |-> <<>>]

Bool(b) == [t |-> "bool", s |-> IF b THEN "true" ELSE "false", items |-> <<>>, entries |-> <<>>]

Array(items) == [t |-> "array", s |-> "", items |-> items, entries |-> <<>>]

\* entries: a sequence of <<key string, item>>, all keys text strings
Map(entries) ==
    [t |-> "map", s |-> "", items |-> <<>>,
     entries |-> [i \in 1..Len(entries) |->
                      [key |-> Tstr(entries[i][1]), value |-> entries[i][2]]]]

SemanticTag(item) == [t |-> "tag", s |-> "", items |-> <<item>>, entries |-> <<>>]

\* Item::asMap, asArray, asTstr, asBstr, asBool: the item itself if it has
\* that type, seen through semantic tags; nullptr otherwise
RECURSIVE asType(_, _)
asType(item, type) ==
    IF item.t = type THEN item
    ELSE IF item.t = "tag" THEN asType(item.items[1], type)
    ELSE NullItem

\* Item::asSemanticTag
asSemanticTag(item) == IF item.t = "tag" THEN item ELSE NullItem

\* Map::get(key) on a map that was not canonicalized: linear search, the
\* empty pointer when the key is absent
RECURSIVE mapGetFrom(_, _, _)
mapGetFrom(map, key, i) ==
    IF i > Len(map.entries) THEN NullItem
    ELSE IF map.entries[i].key = Tstr(key) THEN map.entries[i].value
    ELSE mapGetFrom(map, key, i + 1)

mapGet(map, key) == mapGetFrom(map, key, 1)

\* map->get(key)->asX(): the chain is defined when map and the entry exist
HasEntry(map, key) == map # NullItem /\ mapGet(map, key) # NullItem

\* map->get(key)->asX()->value() runs without dereferencing a null pointer
HasTyped(map, key, type) ==
    HasEntry(map, key) /\ asType(mapGet(map, key), type) # NullItem

\* a std::map<std::string, V> filled by map[key] = value in sequence order
MapOfPairs(pairs) ==
    [k \in {pairs[i][1] : i \in 1..Len(pairs)} |->
        pairs[CHOOSE i \in 1..Len(pairs) :
                  /\ pairs[i][1] = k
                  /\ \A j \in (i + 1)..Len(pairs) : pairs[j][1] # k][2]]

(***************************************************************************)
(* CredentialDatabase.cpp: CredentialDatabase::CredentialDatabase          *)
(***************************************************************************)
\* map->get(key)->asTstr()->value()
TstrAt(map, key) == asType(mapGet(map, key), "tstr").s

\* map->get(key)->asMap()
MapAt(map, key) == asType(mapGet(map, key), "map")

\* map->get(key)->asArray()
ArrayAt(map, key) == asType(mapGet(map, key), "array")

\* [displayName, value, matchValue] is read without a null dereference or
\* an index out of range (CredentialDatabase.cpp 52-55, 72-75)
ClaimDetailsDefined(details) ==
    /\ asType(details, "array") # NullItem
    /\ Len(asType(details, "array").items) >= 3
    /\ \A i \in 1..3 : asType(asType(details, "array").items[i], "tstr") # NullItem

ClaimOfDetails(details) ==
    LET array == asType(details, "array") IN
    [displayName |-> asType(array.items[1], "tstr").s,
     value |-> asType(array.items[2], "tstr").s,
     matchValue |-> asType(array.items[3], "tstr").s]

\* the loop over one namespace's data elements (CredentialDatabase.cpp 46-59)
NamespaceDefined(entry) ==
    /\ asType(entry.key, "tstr") # NullItem
    /\ asType(entry.value, "map") # NullItem
    /\ \A k \in 1..Len(asType(entry.value, "map").entries) :
           /\ asType(asType(entry.value, "map").entries[k].key, "tstr") # NullItem
           /\ ClaimDetailsDefined(asType(entry.value, "map").entries[k].value)

NamespaceClaims(entry) ==
    LET dataElementsMap == asType(entry.value, "map") IN
    [k \in 1..Len(dataElementsMap.entries) |->
        <<asType(entry.key, "tstr").s \o "."
              \o asType(dataElementsMap.entries[k].key, "tstr").s,
          ClaimOfDetails(dataElementsMap.entries[k].value)>>]

\* the "mdoc" projection (CredentialDatabase.cpp 39-61)
MdocDefined(mdocPtr) ==
    LET mdoc == asType(mdocPtr, "map") IN
    /\ mdoc # NullItem
    /\ HasTyped(mdoc, "documentId", "tstr")
    /\ HasTyped(mdoc, "docType", "tstr")
    /\ HasTyped(mdoc, "namespaces", "map")
    /\ \A j \in 1..Len(MapAt(mdoc, "namespaces").entries) :
           NamespaceDefined(MapAt(mdoc, "namespaces").entries[j])

MdocClaims(mdoc) ==
    LET namespaces == MapAt(mdoc, "namespaces").entries
    IN Flatten([j \in 1..Len(namespaces) |-> NamespaceClaims(namespaces[j])])

\* the "sdjwt" projection (CredentialDatabase.cpp 63-79)
SdjwtDefined(sdjwtPtr) ==
    LET sdjwt == asType(sdjwtPtr, "map") IN
    /\ sdjwt # NullItem
    /\ HasTyped(sdjwt, "documentId", "tstr")
    /\ HasTyped(sdjwt, "vct", "tstr")
    /\ HasTyped(sdjwt, "claims", "map")
    /\ \A j \in 1..Len(MapAt(sdjwt, "claims").entries) :
           /\ asType(MapAt(sdjwt, "claims").entries[j].key, "tstr") # NullItem
           /\ ClaimDetailsDefined(MapAt(sdjwt, "claims").entries[j].value)

SdjwtClaims(sdjwt) ==
    LET claims == MapAt(sdjwt, "claims").entries
    IN [j \in 1..Len(claims) |->
           <<asType(claims[j].key, "tstr").s, ClaimOfDetails(claims[j].value)>>]

\* one pass of the loop over credentialsArray runs without undefined
\* behaviour (CredentialDatabase.cpp 29-89)
CredentialDefined(credItem) ==
    LET cred == asType(credItem, "map") IN
    /\ cred # NullItem
    /\ HasTyped(cred, "title", "tstr")
    /\ HasTyped(cred, "subtitle", "tstr")
    /\ HasTyped(cred, "bitmap", "bstr")
    /\ mapGet(cred, "mdoc") # NullItem => MdocDefined(mapGet(cred, "mdoc"))
    /\ mapGet(cred, "sdjwt") # NullItem => SdjwtDefined(mapGet(cred, "sdjwt"))

\* the Credential pushed for one credential map
CredentialOf(credItem) ==
    LET cred == asType(credItem, "map")
        hasMdoc == mapGet(cred, "mdoc") # NullItem
        hasSdjwt == mapGet(cred, "sdjwt") # NullItem
        mdoc == MapAt(cred, "mdoc")
        sdjwt == MapAt(cred, "sdjwt")
    IN [title |-> TstrAt(cred, "title"),
        documentId |-> IF hasSdjwt THEN TstrAt(sdjwt, "documentId")
                       ELSE IF hasMdoc THEN TstrAt(mdoc, "documentId")
                       ELSE "",
        mdocDocType |-> IF hasMdoc THEN TstrAt(mdoc, "docType") ELSE "",
        vcVct |-> IF hasSdjwt THEN TstrAt(sdjwt, "vct") ELSE "",
        claims |-> MapOfPairs((IF hasMdoc THEN MdocClaims(mdoc) ELSE <<>>)
                              \o (IF hasSdjwt THEN SdjwtClaims(sdjwt) ELSE <<>>))]

\* the constructor runs without undefined behaviour on a decoded item
CatalogDefined(item) ==
    LET topMap == asType(item, "map") IN
    /\ topMap # NullItem
    /\ HasTyped(topMap, "protocols", "array")
    /\ \A p \in 1..Len(ArrayAt(topMap, "protocols").items) :
           asType(ArrayAt(topMap, "protocols").items[p], "tstr") # NullItem
    /\ HasTyped(topMap, "credentials", "array")
    /\ \A i \in 1..Len(ArrayAt(topMap, "credentials").items) :
           CredentialDefined(ArrayAt(topMap, "credentials").items[i])

\* the database the constructor leaves: empty when cppbor::parse returned
\* no item (CredentialDatabase.cpp 16-19)
CredentialDatabaseOf(blob) ==
    IF ~blob.ok THEN EmptyCatalog
    ELSE LET topMap == asType(blob.item, "map")
             protocolsArray == ArrayAt(topMap, "protocols").items
             credentialsArray == ArrayAt(topMap, "credentials").items
         IN [protocols |-> [p \in 1..Len(protocolsArray) |->
                                asType(protocolsArray[p], "tstr").s],
             credentials |-> [i \in 1..Len(credentialsArray) |->
                                  CredentialOf(credentialsArray[i])]]

(***************************************************************************)
(* cJSON values as the matcher reads them.  JNull is the NULL pointer that  *)
(* cJSON_Parse and cJSON_GetObjectItem return for "no such item".  A string *)
(* carrying base64url text is kept with what base64UrlDecode followed by    *)
(* the inner parser yields for it (items), a compact JWS with its           *)
(* dot-separated segments.                                                  *)
(***************************************************************************)
JNull == [t |-> "NULL", s |-> "", items |-> <<>>, entries |-> <<>>]

JString(s) == [t |-> "string", s |-> s, items |-> <<>>, entries |-> <<>>]

JTrue == [t |-> "true", s |-> "", items |-> <<>>, entries |-> <<>>]

JArray(items) == [t |-> "jarray", s |-> "", items |-> items, entries |-> <<>>]

JObject(entries) ==
    [t |-> "object", s |-> "", items |-> <<>>,
     entries |-> [i \in 1..Len(entries) |->
                      [key |-> entries[i][1], value |-> entries[i][2]]]]

\* base64url text whose bytes cppbor::parse turns into item (NullItem when
\* the bytes are not one well-formed CBOR item)
JBase64OfCbor(item) == [t |-> "string", s |-> "<base64url>", items |-> <<item>>, entries |-> <<>>]

\* one segment of a compact JWS whose bytes cJSON_Parse turns into json
\* (JNull when the bytes are not JSON)
JwsSegment(json) == [t |-> "segment", s |-> "", items |-> <<json>>, entries |-> <<>>]

\* a string made of the given segments joined by '.'
JJws(segments) == [t |-> "string", s |-> "<jws>", items |-> segments, entries |-> <<>>]

RECURSIVE cJSON_GetObjectItemFrom(_, _, _)
cJSON_GetObjectItemFrom(object, key, i) ==
    IF i > Len(object.entries) THEN JNull
    ELSE IF object.entries[i].key = key THEN object.entries[i].value
    ELSE cJSON_GetObjectItemFrom(object, key, i + 1)

\* NULL for a NULL object and for an absent key
cJSON_GetObjectItem(object, key) == cJSON_GetObjectItemFrom(object, key, 1)

cJSON_IsString(item) == item.t = "string"

cJSON_IsTrue(item) == item.t = "true"

cJSON_IsObject(item) == item.t = "object"

cJSON_IsArray(item) == item.t = "jarray"

\* 0 for NULL and for an item without children
cJSON_GetArraySize(array) == Len(array.items)

\* std::string(cJSON_GetStringValue(item)) is defined only for a string:
\* cJSON_GetStringValue returns NULL for anything else
StringDefined(item) == cJSON_IsString(item)

(***************************************************************************)
(* Request.cpp.  Each parser comes as a pair: XDefined says that the call   *)
(* runs without undefined behaviour, X is the value it then returns.        *)
(***************************************************************************)
NullRequest ==
    [isNull |-> TRUE, protocol |-> "", docType |-> "", dataElements |-> <<>>,
     vctValues |-> <<>>, vcClaims |-> <<>>]

Request(protocol, docType, dataElements, vctValues, vcClaims) ==
    [isNull |-> FALSE, protocol |-> protocol, docType |-> docType,
     dataElements |-> dataElements, vctValues |-> vctValues, vcClaims |-> vcClaims]

MdocRequestDataElement(namespaceName, dataElementName, intentToRetain) ==
    [namespaceName |-> namespaceName, dataElementName |-> dataElementName,
     intentToRetain |-> intentToRetain]

parsePreviewDefined(dataJson) ==
    LET selector == cJSON_GetObjectItem(dataJson, "selector")
        fields == cJSON_GetObjectItem(selector, "fields")
    IN /\ StringDefined(cJSON_GetObjectItem(selector, "doctype"))
       /\ \A i \in 1..cJSON_GetArraySize(fields) :
              /\ StringDefined(cJSON_GetObjectItem(fields.items[i], "namespace"))
              /\ StringDefined(cJSON_GetObjectItem(fields.items[i], "name"))

parsePreview(dataJson) ==
    LET selector == cJSON_GetObjectItem(dataJson, "selector")
        fields == cJSON_GetObjectItem(selector, "fields")
    IN Request("preview",
               cJSON_GetObjectItem(selector, "doctype").s,
               [i \in 1..cJSON_GetArraySize(fields) |->
                   MdocRequestDataElement(
                       cJSON_GetObjectItem(fields.items[i], "namespace").s,
                       cJSON_GetObjectItem(fields.items[i], "name").s,
                       cJSON_IsTrue(cJSON_GetObjectItem(fields.items[i], "intentToRetain")))],
               <<>>, <<>>)

\* the item cppbor::parse returns for the bytes held by a byte string or by
\* decoded base64url text; nullptr when they are not a CBOR item
cppborParse(bytes) == IF bytes.items = <<>> THEN NullItem ELSE bytes.items[1]

\* doc_requests->get(0)->asMap()->get("itemsRequest")->asSemanticTag()->asBstr()
itemsRequestBytes(doc_requests) ==
    asType(asSemanticTag(mapGet(asType(doc_requests.items[1], "map"), "itemsRequest")),
           "bstr")

\* one entry of nameSpaces is read without a null dereference
RequestNamespaceDefined(entry) ==
    /\ asType(entry.key, "tstr") # NullItem
    /\ asType(entry.value, "map") # NullItem
    /\ \A k \in 1..Len(asType(entry.value, "map").entries) :
           /\ asType(asType(entry.value, "map").entries[k].key, "tstr") # NullItem
           /\ asType(asType(entry.value, "map").entries[k].value, "bool") # NullItem

RequestNamespaceElements(entry) ==
    LET deMap == asType(entry.value, "map") IN
    [k \in 1..Len(deMap.entries) |->
        MdocRequestDataElement(asType(entry.key, "tstr").s,
                               asType(deMap.entries[k].key, "tstr").s,
                               asType(deMap.entries[k].value, "bool").s = "true")]

\* no statement of parseMdocApi dereferences a null pointer or indexes an
\* empty vector: the function tests none of this itself
parseMdocApiDefined(dataJson) ==
    LET deviceRequestJson == cJSON_GetObjectItem(dataJson, "deviceRequest")
        item == cppborParse(deviceRequestJson)
        map == asType(item, "map")
        doc_requests == ArrayAt(map, "docRequests")
        doc_request == asType(doc_requests.items[1], "map")
        items_request_bytes == itemsRequestBytes(doc_requests)
        items_request_map == asType(cppborParse(items_request_bytes), "map")
    IN /\ StringDefined(deviceRequestJson)
       /\ item # NullItem
       /\ map # NullItem
       /\ HasTyped(map, "docRequests", "array")
       /\ Len(doc_requests.items) > 0
       /\ doc_request # NullItem
       /\ HasEntry(doc_request, "itemsRequest")
       /\ asSemanticTag(mapGet(doc_request, "itemsRequest")) # NullItem
       /\ items_request_bytes # NullItem
       /\ cppborParse(items_request_bytes) # NullItem
       /\ items_request_map # NullItem
       /\ HasTyped(items_request_map, "docType", "tstr")
       /\ HasTyped(items_request_map, "nameSpaces", "map")
       /\ \A j \in 1..Len(MapAt(items_request_map, "nameSpaces").entries) :
              RequestNamespaceDefined(MapAt(items_request_map, "nameSpaces").entries[j])

parseMdocApi(protocolName, dataJson) ==
    LET item == cppborParse(cJSON_GetObjectItem(dataJson, "deviceRequest"))
        doc_requests == ArrayAt(asType(item, "map"), "docRequests")
        items_request_map ==
            asType(cppborParse(itemsRequestBytes(doc_requests)), "map")
        namespaces == MapAt(items_request_map, "nameSpaces").entries
    IN Request(protocolName,
               TstrAt(items_request_map, "docType"),
               Flatten([j \in 1..Len(namespaces) |->
                           RequestNamespaceElements(namespaces[j])]),
               <<>>, <<>>)

\* NULL when the index is out of range
cJSON_GetArrayItem(array, index) ==
    IF index < Len(array.items) THEN array.items[index + 1] ELSE JNull

\* the JSON cJSON_Parse returns for the decoded payload of a JWS
payloadJson(request) ==
    IF request.items[2].t = "segment" THEN request.items[2].items[1] ELSE JNull

\* jwtStr.find(".") and the second find both succeed
hasTwoDots(request) == Len(request.items) >= 3

\* the JSON in which dcql_query is looked up (Request.cpp 98-112)
dcqlJson(dataJson) ==
    LET request == cJSON_GetObjectItem(dataJson, "request")
    IN IF request # JNull THEN payloadJson(request) ELSE dataJson

firstCredential(dataJson) ==
    cJSON_GetArrayItem(
        cJSON_GetObjectItem(cJSON_GetObjectItem(dcqlJson(dataJson), "dcql_query"),
                            "credentials"), 0)

hasCredential(dataJson) ==
    cJSON_GetArraySize(
        cJSON_GetObjectItem(cJSON_GetObjectItem(dcqlJson(dataJson), "dcql_query"),
                            "credentials")) > 0

formatOf(credential) == cJSON_GetObjectItem(credential, "format").s

pathOf(claim) == cJSON_GetObjectItem(claim, "path")

RECURSIVE vcClaimNameFrom(_, _, _)
vcClaimNameFrom(path, i, claimName) ==
    IF i >= cJSON_GetArraySize(path) THEN claimName
    ELSE vcClaimNameFrom(path, i + 1,
                         (IF i > 0 THEN claimName \o "." ELSE claimName)
                             \o cJSON_GetArrayItem(path, i).s)

\* the first credential query is read without std::string(NULL)
firstCredentialDefined(credential) ==
    LET meta == cJSON_GetObjectItem(credential, "meta")
        claims == cJSON_GetObjectItem(credential, "claims")
        vctValuesObj == cJSON_GetObjectItem(meta, "vct_values")
    IN /\ StringDefined(cJSON_GetObjectItem(credential, "format"))
       /\ formatOf(credential) \in {"mso_mdoc", "mso_mdoc_zk"} =>
              /\ StringDefined(cJSON_GetObjectItem(meta, "doctype_value"))
              /\ \A c \in 1..Len(claims.items) :
                     /\ StringDefined(cJSON_GetArrayItem(pathOf(claims.items[c]), 0))
                     /\ StringDefined(cJSON_GetArrayItem(pathOf(claims.items[c]), 1))
       /\ formatOf(credential) = "dc+sd-jwt" =>
              /\ \A v \in 1..Len(vctValuesObj.items) :
                     StringDefined(vctValuesObj.items[v])
              /\ \A c \in 1..Len(claims.items) :
                     \A i \in 1..cJSON_GetArraySize(pathOf(claims.items[c])) :
                         StringDefined(pathOf(claims.items[c]).items[i])

parseOpenID4VPDefined(dataJson) ==
    LET request == cJSON_GetObjectItem(dataJson, "request")
    IN /\ request # JNull => StringDefined(request)
       /\ (request # JNull => hasTwoDots(request)) /\ hasCredential(dataJson)
              => firstCredentialDefined(firstCredential(dataJson))

parseOpenID4VP(dataJson, protocolName) ==
    LET request == cJSON_GetObjectItem(dataJson, "request")
        credential == firstCredential(dataJson)
        meta == cJSON_GetObjectItem(credential, "meta")
        claims == cJSON_GetObjectItem(credential, "claims")
        vctValuesObj == cJSON_GetObjectItem(meta, "vct_values")
    IN IF request # JNull /\ ~hasTwoDots(request) THEN NullRequest
       ELSE IF ~hasCredential(dataJson) THEN Request(protocolName, "", <<>>, <<>>, <<>>)
       ELSE IF formatOf(credential) \in {"mso_mdoc", "mso_mdoc_zk"}
       THEN Request(protocolName,
                    cJSON_GetObjectItem(meta, "doctype_value").s,
                    [c \in 1..Len(claims.items) |->
                        MdocRequestDataElement(
                            cJSON_GetArrayItem(pathOf(claims.items[c]), 0).s,
                            cJSON_GetArrayItem(pathOf(claims.items[c]), 1).s,
                            FALSE)],
                    <<>>, <<>>)
       ELSE IF formatOf(credential) = "dc+sd-jwt"
       THEN Request(protocolName, "", <<>>,
                    [v \in 1..Len(vctValuesObj.items) |-> vctValuesObj.items[v].s],
                    [c \in 1..Len(claims.items) |->
                        [claimName |-> vcClaimNameFrom(pathOf(claims.items[c]), 0, "")]])
       ELSE Request(protocolName, "", <<>>, <<>>, <<>>)

(***************************************************************************)
(* matcher.cpp: the body of the loop over the request objects.              *)
(***************************************************************************)
\* Credential::matchesRequest: the doctype is the requested one and at
\* least one requested data element is among the credential's claims
matchesRequestRetained(credential, request) ==
    /\ credential.mdocDocType = request.docType
    /\ \E e \in 1..Len(request.dataElements) :
           /\ request.dataElements[e].intentToRetain
           /\ (request.dataElements[e].namespaceName \o "."
                   \o request.dataElements[e].dataElementName) \in DOMAIN credential.claims

matchesRequestAll(credential, request) ==
    /\ credential.mdocDocType = request.docType
    /\ request.dataElements # <<>>
    /\ \A e \in 1..Len(request.dataElements) :
           (request.dataElements[e].namespaceName \o "."
                \o request.dataElements[e].dataElementName) \in DOMAIN credential.claims

matchesRequest(credential, request) ==
    /\ credential.mdocDocType = request.docType
    /\ \E e \in 1..Len(request.dataElements) :
           (request.dataElements[e].namespaceName \o "."
                \o request.dataElements[e].dataElementName) \in DOMAIN credential.claims

PickerCall(fn, id, a, b, iteration) ==
    [fn |-> fn, id |-> id, a |-> a, b |-> b, n |-> iteration]

RECURSIVE addFieldsFrom(_, _, _, _)
addFieldsFrom(credential, request, e, iteration) ==
    IF e > Len(request.dataElements) THEN <<>>
    ELSE LET combinedName == request.dataElements[e].namespaceName \o "."
                                 \o request.dataElements[e].dataElementName
         IN (IF combinedName \in DOMAIN credential.claims
             THEN <<PickerCall("AddFieldForStringIdEntry", credential.documentId,
                               credential.claims[combinedName].displayName,
                               credential.claims[combinedName].value, iteration)>>
             ELSE <<>>)
            \o addFieldsFrom(credential, request, e + 1, iteration)

addCredentialToPickerFieldsFirst(credential, request, iteration) ==
    addFieldsFrom(credential, request, 1, iteration)
        \o <<PickerCall("AddStringIdEntry", credential.documentId, credential.title, "",
                        iteration)>>

\* Credential::addCredentialToPicker: the entry, then one field per
\* requested data element the credential holds, in request order
addCredentialToPicker(credential, request, iteration) ==
    <<PickerCall("AddStringIdEntry", credential.documentId, credential.title, "",
                 iteration)>>
        \o addFieldsFrom(credential, request, 1, iteration)

alreadyUsedNever(used, documentId) == FALSE

\* documentIdsAlreadyUsed.find(credential.documentId) != end()
alreadyUsed(used, documentId) == documentId \in used

\* the loop over db->credentials for one parsed request (matcher.cpp 79-88);
\* state is [used, calls]
RECURSIVE forEachCredential(_, _, _, _, _)
forEachCredential(db, r, i, iteration, state) ==
    IF i > Len(db.credentials) THEN state
    ELSE LET credential == db.credentials[i]
         IN forEachCredential(db, r, i + 1, iteration,
                IF ~matchesRequest(credential, r) THEN state
                ELSE IF alreadyUsed(state.used, credential.documentId) THEN state
                ELSE [used |-> state.used \cup {credential.documentId},
                      calls |-> state.calls
                                    \o addCredentialToPicker(credential, r, iteration)])

handleRequestAnyProtocol(db, r, iteration, state) ==
    IF r.isNull THEN state ELSE forEachCredential(db, r, 1, iteration, state)

handleRequestMarkingSkipped(db, r, iteration, state) ==
    IF r.isNull THEN state
    ELSE IF ~Contains(db.protocols, r.protocol)
    THEN [used |-> state.used \cup {db.credentials[i].documentId :
                                       i \in {j \in 1..Len(db.credentials) :
                                                 matchesRequest(db.credentials[j], r)}},
          calls |-> state.calls]
    ELSE forEachCredential(db, r, 1, iteration, state)

\* if (r) { if (protocol is one of db->protocols) { ... } }
handleRequest(db, r, iteration, state) ==
    IF r.isNull THEN state
    ELSE IF ~Contains(db.protocols, r.protocol) THEN state
    ELSE forEachCredential(db, r, 1, iteration, state)

protocolOf(request) == cJSON_GetObjectItem(request, "protocol")

dataOf(request) == cJSON_GetObjectItem(request, "data")

OpenID4VPProtocols == {"openid4vp", "openid4vp-v1-unsigned", "openid4vp-v1-signed"}

MdocApiProtocols == {"org.iso.mdoc", "org-iso-mdoc", "austroads-request-forwarding-v2"}

\* lines 48-75 run without undefined behaviour for this request object
requestDefined(request) ==
    \/ ~cJSON_IsObject(request)
    \/ /\ StringDefined(protocolOf(request))
       /\ protocolOf(request).s = "preview" => parsePreviewDefined(dataOf(request))
       /\ protocolOf(request).s \in OpenID4VPProtocols
              => parseOpenID4VPDefined(dataOf(request))
       /\ protocolOf(request).s \in MdocApiProtocols
              => parseMdocApiDefined(dataOf(request))

parseRequestUnknownAsPreview(request) ==
    IF ~cJSON_IsObject(request) THEN NullRequest
    ELSE IF protocolOf(request).s \in OpenID4VPProtocols
    THEN parseOpenID4VP(dataOf(request), protocolOf(request).s)
    ELSE IF protocolOf(request).s \in MdocApiProtocols
    THEN parseMdocApi(protocolOf(request).s, dataOf(request))
    ELSE parsePreview(dataOf(request))

\* r after lines 48-75; null when the element is skipped
parseRequest(request) ==
    IF ~cJSON_IsObject(request) THEN NullRequest
    ELSE IF protocolOf(request).s = "preview" THEN parsePreview(dataOf(request))
    ELSE IF protocolOf(request).s \in OpenID4VPProtocols
    THEN parseOpenID4VP(dataOf(request), protocolOf(request).s)
    ELSE IF protocolOf(request).s \in MdocApiProtocols
    THEN parseMdocApi(protocolOf(request).s, dataOf(request))
    ELSE NullRequest

(***************************************************************************)
(* Catalogs and envelopes handed to the matcher entry point.                *)
(***************************************************************************)
ClaimDetails(matchValue) == Array(<<Tstr("Name"), Tstr("Value"), Tstr(matchValue)>>)

MdocItem(documentId, docType, dataElements) ==
    Map(<< <<"documentId", Tstr(documentId)>>, <<"docType", Tstr(docType)>>,
           <<"namespaces", Map(<< <<"ns", Map(dataElements)>> >>)>> >>)

SdjwtItem(documentId, vct, claims) ==
    Map(<< <<"documentId", Tstr(documentId)>>, <<"vct", Tstr(vct)>>,
           <<"claims", Map(claims)>> >>)

CredentialItem(title, projections) ==
    Map(<< <<"title", Tstr(title)>>, <<"subtitle", Tstr("S")>>,
           <<"bitmap", Bstr(<<>>)>> >> \o projections)

\* doc1 is held twice (two credentials of one document); doc3 has both
\* projections
CredentialItems ==
    { CredentialItem("T1", << <<"mdoc", MdocItem("doc1", "mDL",
                                   << <<"a", ClaimDetails("1")>>,
                                      <<"b", ClaimDetails("2")>> >>)>> >>),
      CredentialItem("T1b", << <<"mdoc", MdocItem("doc1", "mDL",
                                    << <<"a", ClaimDetails("1")>> >>)>> >>),
      CredentialItem("T3", << <<"mdoc", MdocItem("doc3", "mDL",
                                   << <<"b", ClaimDetails("1")>> >>)>>,
                              <<"sdjwt", SdjwtItem("doc3", "pid",
                                   << <<"a", ClaimDetails("1")>> >>)>> >>) }

Protocols(names) == Array([i \in 1..Len(names) |-> Tstr(names[i])])

AllProtocols == <<"preview", "org-iso-mdoc", "openid4vp", "openid4vp-v1-signed">>

CatalogItem(protocols, credentials) ==
    Map(<< <<"protocols", Protocols(protocols)>>,
           <<"credentials", Array(credentials)>> >>)

WellFormedCatalogItems ==
    {CatalogItem(AllProtocols, cs) : cs \in SeqsUpTo(CredentialItems, MaxCreds)}
        \cup {CatalogItem(<<"preview">>, <<cred>>) :
                 cred \in {c \in CredentialItems : TstrAt(c, "title") = "T1"}}

\* decoded, but not what the constructor reads
MalformedCatalogItems ==
    { Array(<<>>),
      Map(<< <<"credentials", Array(<<>>)>> >>),
      Map(<< <<"protocols", Protocols(AllProtocols)>>, <<"credentials", Tstr("x")>> >>),
      CatalogItem(AllProtocols,
                  <<Map(<< <<"subtitle", Tstr("S")>>, <<"bitmap", Bstr(<<>>)>> >>)>>),
      CatalogItem(AllProtocols, <<CredentialItem("T", << <<"mdoc",
                      Map(<< <<"docType", Tstr("mDL")>>,
                             <<"namespaces", Map(<<>>)>> >>)>> >>)>>),
      CatalogItem(AllProtocols, <<Map(<< <<"title", Bool(TRUE)>>,
                                         <<"subtitle", Tstr("S")>>,
                                         <<"bitmap", Bstr(<<>>)>> >>)>>) }

\* what cppbor::parse returns for the catalog bytes
ParseFailure == [ok |-> FALSE, item |-> NullItem]

Parsed(item) == [ok |-> TRUE, item |-> item]

CatalogBlobs ==
    {ParseFailure} \cup {Parsed(item) : item \in WellFormedCatalogItems \cup MalformedCatalogItems}

RequestObject(protocol, data) ==
    JObject(<< <<"protocol", JString(protocol)>>, <<"data", data>> >>)

PreviewData(doctype, name) ==
    JObject(<< <<"selector", JObject(<<
        <<"doctype", JString(doctype)>>,
        <<"fields", JArray(<<JObject(<< <<"namespace", JString("ns")>>,
                                        <<"name", JString(name)>>,
                                        <<"intentToRetain", JTrue>> >>)>>)>> >>)>> >>)

ItemsRequest(docType, name) ==
    Map(<< <<"docType", Tstr(docType)>>,
           <<"nameSpaces", Map(<< <<"ns", Map(<< <<name, Bool(FALSE)>> >>)>> >>)>> >>)

DeviceRequest(docType, name) ==
    Map(<< <<"version", Tstr("1.0")>>,
           <<"docRequests", Array(<<Map(<< <<"itemsRequest",
                 SemanticTag(Bstr(<<ItemsRequest(docType, name)>>))>> >>)>>)>> >>)

MdocApiData(item) == JObject(<< <<"deviceRequest", JBase64OfCbor(item)>> >>)

DcqlJson(doctype, name) ==
    JObject(<< <<"dcql_query", JObject(<< <<"credentials", JArray(<<JObject(<<
        <<"id", JString("A")>>,
        <<"format", JString("mso_mdoc")>>,
        <<"meta", JObject(<< <<"doctype_value", JString(doctype)>> >>)>>,
        <<"claims", JArray(<<JObject(<< <<"path",
              JArray(<<JString("ns"), JString(name)>>)>> >>)>>)>> >>)>>)>> >>)>> >>)

SignedData(segments) == JObject(<< <<"request", JJws(segments)>> >>)

WellFormedRequests ==
    { RequestObject("preview", PreviewData("mDL", "a")),
      RequestObject("org-iso-mdoc", MdocApiData(DeviceRequest("mDL", "b"))),
      RequestObject("openid4vp", DcqlJson("mDL", "a")),
      RequestObject("openid4vp-v1-signed",
                    SignedData(<<JwsSegment(JNull), JwsSegment(DcqlJson("mDL", "b")),
                                 JwsSegment(JNull)>>)) }

\* bodies that are malformed: inner CBOR that does not decode, inner CBOR
\* lacking docRequests, a JWS with one dot, a JWS whose payload is not JSON
MalformedBodyRequests ==
    { RequestObject("org-iso-mdoc", MdocApiData(NullItem)),
      RequestObject("org-iso-mdoc", MdocApiData(Map(<< <<"version", Tstr("1.0")>> >>))),
      RequestObject("openid4vp-v1-signed",
                    SignedData(<<JwsSegment(JNull), JwsSegment(DcqlJson("mDL", "a"))>>)),
      RequestObject("openid4vp-v1-signed",
                    SignedData(<<JwsSegment(JNull), JwsSegment(JNull), JwsSegment(JNull)>>)) }

OtherRequests ==
    { JString("not an object"),
      RequestObject("future-proto", PreviewData("mDL", "a")),
      RequestObject("preview", JObject(<< <<"selector", JObject(<<>>)>> >>)) }

RequestObjects == WellFormedRequests \cup MalformedBodyRequests \cup OtherRequests

Envelopes == SeqsUpTo(RequestObjects, MaxRequests)

(***************************************************************************)
(* What the statements after an undefined operation may be left with, when  *)
(* the run goes on at all: the null dereference reads whatever the linear   *)
(* memory holds at address 0.                                               *)
(***************************************************************************)
ArbitraryDatabases ==
    { EmptyCatalog,
      CredentialDatabaseOf(Parsed(CatalogItem(AllProtocols,
          <<CredentialItem("T1", << <<"mdoc", MdocItem("doc1", "mDL",
                << <<"a", ClaimDetails("1")>> >>)>> >>)>>))) }

ArbitraryRequests ==
    { NullRequest,
      Request("preview", "mDL",
              <<MdocRequestDataElement("ns", "a", FALSE)>>, <<>>, <<>>) }

(***************************************************************************)
(* The matcher entry point as a state machine: the catalog load, then one   *)
(* step per pass of the loop over the request objects, then the return.     *)
(***************************************************************************)
InitMatcher ==
    /\ pc = "start"
    /\ catalogBlob \in CatalogBlobs
    /\ requests \in Envelopes
    /\ n = 0
    /\ documentIdsAlreadyUsed = {}
    /\ pickerCalls = <<>>
    /\ mdocRequest = NoMdocRequest
    /\ credentialDatabase = EmptyCatalog
    /\ dcqlQuery = EmptyQuery
    /\ credentialQueryIdToResponse = <<>>
    /\ dcqlResponse = nullopt
    /\ consolidatedCredentialSets = <<>>
    /\ pathCombinations = <<>>
    /\ combinations = <<>>
    /\ EmitterIdle
    /\ CborIdle

\* the constructor dereferences no null pointer for this blob
catalogLoadDefined(blob) == ~blob.ok \/ CatalogDefined(blob.item)

\* new CredentialDatabase(credsBlob, credsBlobSize)
LoadCatalog ==
    /\ pc = "start"
    /\ IF catalogLoadDefined(catalogBlob)
       THEN /\ credentialDatabase' = CredentialDatabaseOf(catalogBlob)
            /\ pc' = "loop"
       ELSE \/ /\ pc' = "crashed"
               /\ UNCHANGED credentialDatabase
            \/ /\ pc' = "loop"
               /\ credentialDatabase' \in ArbitraryDatabases
    /\ UNCHANGED <<catalogBlob, requests, n, documentIdsAlreadyUsed, pickerCalls,
                   mdocRequest>>
    /\ UNCHANGED <<dcqlQuery, credentialQueryIdToResponse, dcqlResponse,
                   consolidatedCredentialSets, pathCombinations, combinations>>
    /\ UNCHANGED <<emitterVars, cborVars>>

\* one pass of the loop body with r as parsed
passWith(r) ==
    LET state == handleRequest(credentialDatabase, r, n,
                               [used |-> documentIdsAlreadyUsed, calls |-> pickerCalls])
    IN /\ documentIdsAlreadyUsed' = state.used
       /\ pickerCalls' = state.calls
       /\ n' = n + 1
       /\ pc' = "loop"

\* for (int n = 0; n < numRequests; n++) { ... }
ProcessRequest ==
    /\ pc = "loop"
    /\ n < Len(requests)
    /\ IF requestDefined(requests[n + 1])
       THEN passWith(parseRequest(requests[n + 1]))
       ELSE \/ /\ pc' = "crashed"
               /\ UNCHANGED <<n, documentIdsAlreadyUsed, pickerCalls>>
            \/ \E r \in ArbitraryRequests : passWith(r)
    /\ UNCHANGED <<catalogBlob, requests, credentialDatabase, mdocRequest>>
    /\ UNCHANGED <<dcqlQuery, credentialQueryIdToResponse, dcqlResponse,
                   consolidatedCredentialSets, pathCombinations, combinations>>
    /\ UNCHANGED <<emitterVars, cborVars>>

\* the loop ends and matcher returns
Return ==
    /\ pc = "loop"
    /\ n = Len(requests)
    /\ pc' = "returned"
    /\ UNCHANGED <<catalogBlob, requests, n, documentIdsAlreadyUsed, pickerCalls,
                   credentialDatabase, mdocRequest>>
    /\ UNCHANGED <<dcqlQuery, credentialQueryIdToResponse, dcqlResponse,
                   consolidatedCredentialSets, pathCombinations, combinations>>
    /\ UNCHANGED <<emitterVars, cborVars>>

NextMatcher == LoadCatalog \/ ProcessRequest \/ Return

SpecMatcher == InitMatcher /\ [][NextMatcher]_vars

(***************************************************************************)
(* Properties of the matcher entry point.                                   *)
(***************************************************************************)
\* positions of the add-entry calls among the picker calls
EntryCalls == {i \in 1..Len(pickerCalls) : pickerCalls[i].fn = "AddStringIdEntry"}

\* request object m of the envelope, read without undefined behaviour,
\* parses to a request for a protocol of the catalog that a credential of
\* document documentId matches
RequestMatchesDocument(m, documentId) ==
    LET r == parseRequest(requests[m])
    IN /\ ~r.isNull
       /\ Contains(credentialDatabase.protocols, r.protocol)
       /\ \E i \in 1..Len(credentialDatabase.credentials) :
              /\ credentialDatabase.credentials[i].documentId = documentId
              /\ matchesRequest(credentialDatabase.credentials[i], r)

DocumentIds ==
    {credentialDatabase.credentials[i].documentId :
         i \in 1..Len(credentialDatabase.credentials)}

\* the request objects handled so far were all read without undefined
\* behaviour
HandledDefined == \A m \in 1..n : requestDefined(requests[m])

\* C1: no documentId is passed to the add-entry call more than once in one
\* invocation, and when several request objects match credentials of one
\* document, the entry for that document is the one made while handling the
\* first of them in envelope order.
C1_FirstRequestOnlyPerDocument ==
    /\ \A i, j \in EntryCalls : pickerCalls[i].id = pickerCalls[j].id => i = j
    /\ (pc \in {"loop", "returned"} /\ HandledDefined) =>
           /\ \A i \in EntryCalls :
                  /\ pickerCalls[i].n < n
                  /\ RequestMatchesDocument(pickerCalls[i].n + 1, pickerCalls[i].id)
                  /\ \A k \in 1..pickerCalls[i].n :
                         ~RequestMatchesDocument(k, pickerCalls[i].id)
           /\ \A documentId \in DocumentIds : \A m \in 1..n :
                  RequestMatchesDocument(m, documentId) =>
                      \E i \in EntryCalls : pickerCalls[i].id = documentId

\* two request objects of one envelope matched the same document, which is
\* also held by two credentials; one entry was made, for the first request
C1_Witness ==
    /\ pc = "returned"
    /\ HandledDefined
    /\ Len(requests) = 2
    /\ RequestMatchesDocument(1, "doc1")
    /\ RequestMatchesDocument(2, "doc1")
    /\ Cardinality({i \in 1..Len(credentialDatabase.credentials) :
                       credentialDatabase.credentials[i].documentId = "doc1"}) = 2
    /\ \E i \in EntryCalls : pickerCalls[i].id = "doc1" /\ pickerCalls[i].n = 0

\* the calls without the number of the loop pass that made them
CallsOf(calls) ==
    [i \in 1..Len(calls) |-> [fn |-> calls[i].fn, id |-> calls[i].id,
                              a |-> calls[i].a, b |-> calls[i].b]]

\* the picker calls of an envelope whose request objects are all read
\* without undefined behaviour
RECURSIVE callsOfEnvelope(_, _, _, _)
callsOfEnvelope(db, envelope, i, state) ==
    IF i > Len(envelope) THEN state.calls
    ELSE callsOfEnvelope(db, envelope, i + 1,
                         handleRequest(db, parseRequest(envelope[i]), i - 1, state))

IsWellFormedRequest(request) == request \in WellFormedRequests

\* the envelope without its request objects of malformed body
WithoutMalformed == SelectSeq(requests, IsWellFormedRequest)

\* C2 as stated: in an envelope of well-formed request objects and request
\* objects of malformed body, the malformed ones are skipped: the
\* invocation does not abort, and at its end the picker has received
\* exactly the calls of the envelope without the malformed request objects.
C2_MalformedBodySkipped ==
    (/\ catalogLoadDefined(catalogBlob)
     /\ \A m \in 1..Len(requests) :
            requests[m] \in WellFormedRequests \cup MalformedBodyRequests)
        => /\ pc # "crashed"
           /\ pc = "returned" =>
                  CallsOf(pickerCalls)
                      = CallsOf(callsOfEnvelope(credentialDatabase, WithoutMalformed, 1,
                                                [used |-> {}, calls |-> <<>>]))

IsMalformedCatalog(blob) == ~blob.ok \/ blob.item \in MalformedCatalogItems

\* C3 as stated: for a malformed catalog the load leaves an empty
\* credential list, the invocation goes on through the request objects and
\* no picker call is made.
C3_MalformedCatalogLoadsEmpty ==
    (/\ IsMalformedCatalog(catalogBlob)
     /\ \A m \in 1..Len(requests) : requestDefined(requests[m])
     /\ pc # "start")
        => /\ pc # "crashed"
           /\ credentialDatabase.credentials = <<>>
           /\ pickerCalls = <<>>

\* the protocol string of the request parsed from request object m
ProtocolOfRequest(m) == parseRequest(requests[m]).protocol

\* C13: a picker call is made for a request only if the protocol of the
\* parsed request is in the catalog's protocols list; a request whose
\* protocol is not in the list produces no picker call, whatever credentials
\* match it.
C13_ProtocolPreflight ==
    (pc \in {"loop", "returned"} /\ HandledDefined) =>
        /\ \A k \in 1..Len(pickerCalls) :
               Contains(credentialDatabase.protocols,
                        ProtocolOfRequest(pickerCalls[k].n + 1))
        /\ \A m \in 1..n :
               ~Contains(credentialDatabase.protocols, ProtocolOfRequest(m))
                   => \A k \in 1..Len(pickerCalls) : pickerCalls[k].n # m - 1

\* the first request object parses to a request that a credential matches
\* but whose protocol the catalog does not list; the second one is listed
\* and made the only entry
C13_Witness ==
    /\ pc = "returned"
    /\ HandledDefined
    /\ Len(requests) = 2
    /\ ~parseRequest(requests[1]).isNull
    /\ ~Contains(credentialDatabase.protocols, ProtocolOfRequest(1))
    /\ \E i \in 1..Len(credentialDatabase.credentials) :
           matchesRequest(credentialDatabase.credentials[i], parseRequest(requests[1]))
    /\ EntryCalls # {}
    /\ \A k \in 1..Len(pickerCalls) : pickerCalls[k].n = 1

SupportedProtocols == {"preview"} \cup OpenID4VPProtocols \cup MdocApiProtocols

\* a request object naming a protocol the matcher has no parser for
IsUnsupported(request) ==
    /\ cJSON_IsObject(request)
    /\ StringDefined(protocolOf(request))
    /\ protocolOf(request).s \notin SupportedProtocols

IsSupported(request) == ~IsUnsupported(request)

\* C14: request objects of unsupported protocol are skipped: after any
\* number of loop passes the picker has received exactly the calls of the
\* request objects handled so far with the unsupported ones left out, so
\* the request objects after an unsupported one are processed normally.
C14_UnsupportedProtocolSkipped ==
    (pc \in {"loop", "returned"} /\ HandledDefined) =>
        /\ CallsOf(pickerCalls)
               = CallsOf(callsOfEnvelope(credentialDatabase,
                                         SelectSeq(SubSeq(requests, 1, n), IsSupported),
                                         1, [used |-> {}, calls |-> <<>>]))
        /\ \A k \in 1..Len(pickerCalls) :
               IsSupported(requests[pickerCalls[k].n + 1])

\* [future-proto, org-iso-mdoc]: only the mdoc request made entries
C14_Witness ==
    /\ pc = "returned"
    /\ Len(requests) = 2
    /\ IsUnsupported(requests[1])
    /\ protocolOf(requests[2]).s = "org-iso-mdoc"
    /\ requestDefined(requests[2])
    /\ EntryCalls # {}
    /\ \A k \in 1..Len(pickerCalls) : pickerCalls[k].n = 1

(***************************************************************************)
(* Properties of DcqlQuery::execute.                                       *)
(***************************************************************************)
Executed == pc \in {"executed", "combined"}

CredentialQueries == dcqlQuery.dcqlCredentialQueries

CredentialSetQueriesOfQuery == dcqlQuery.dcqlCredentialSetQueries

Catalog == credentialDatabase.credentials

\* the Stage-1 matches recorded for a credential-query id
Stage1Matches(id) ==
    IF id \in DOMAIN credentialQueryIdToResponse
    THEN credentialQueryIdToResponse[id].matches
    ELSE <<>>

\* an option is satisfied iff every id it lists has a Stage-1 match
OptionSatisfied(option) ==
    \A k \in 1..Len(option) : Stage1Matches(option[k]) # <<>>

\* the response option expected for a satisfied option of the query
ExpectedOption(option) ==
    [members |-> [m \in 1..Len(option) |-> [matches |-> Stage1Matches(option[m])]]]

\* the satisfied options of a credential set query, in declaration order
ExpectedOptions(csq) ==
    LET sat == SelectSeq(csq.options, OptionSatisfied)
    IN [k \in 1..Len(sat) |-> ExpectedOption(sat[k])]

RequiredSetUnsatisfied ==
    \E i \in 1..Len(CredentialSetQueriesOfQuery) :
        /\ CredentialSetQueriesOfQuery[i].required
        /\ \A k \in 1..Len(CredentialSetQueriesOfQuery[i].options) :
               ~OptionSatisfied(CredentialSetQueriesOfQuery[i].options[k])

SyntheticSet(id) ==
    [optional |-> FALSE,
     options |-> <<[members |-> <<[matches |-> Stage1Matches(id)]>>]>>]

\* C5: without credential_sets, execute returns no response if some
\* credential query has no match; otherwise the response holds exactly one
\* synthetic set per credential query: optional = false, one option, one
\* member, whose matches are that query's Stage-1 matches.
C5_SyntheticSetPerQuery ==
    (Executed /\ CredentialSetQueriesOfQuery = <<>>) =>
        IF \E i \in 1..Len(CredentialQueries) : Stage1Matches(CredentialQueries[i].id) = <<>>
        THEN ~dcqlResponse.has_value
        ELSE /\ dcqlResponse.has_value
             /\ Len(dcqlResponse.credentialSets) = Len(CredentialQueries)
             /\ \E p \in [1..Len(CredentialQueries) -> 1..Len(CredentialQueries)] :
                    /\ \A i, j \in 1..Len(CredentialQueries) : p[i] = p[j] => i = j
                    /\ \A i \in 1..Len(CredentialQueries) :
                           dcqlResponse.credentialSets[p[i]]
                               = SyntheticSet(CredentialQueries[i].id)

C5_Witness ==
    /\ pc = "executed"
    /\ CredentialSetQueriesOfQuery = <<>>
    /\ Len(CredentialQueries) = 2
    /\ dcqlResponse.has_value
    /\ Len(dcqlResponse.credentialSets) = 2
    /\ Len(dcqlResponse.credentialSets[1].options[1].members[1].matches) = 1
    /\ dcqlResponse.credentialSets[2].options[1].members[1].matches
           = Stage1Matches("B")

\* a requested claim resolves against a credential
Resolves(cred, claim) ==
    /\ joinPath(claim.path) \in DOMAIN cred.claims
    /\ \/ claim.values = <<>>
       \/ \E v \in 1..Len(claim.values) :
              claim.values[v] = cred.claims[joinPath(claim.path)].matchValue

\* positions of the matches recorded for credential c
MatchesOfCredential(matches, c) == {k \in 1..Len(matches) : matches[k].credential = c}

\* C6: for a credential query without claim sets, a credential that passes
\* the format/meta filter is recorded as a match iff every requested claim
\* resolves against it, and the recorded claims are the resolved claims in
\* the order the requested claims were declared.
C6_AllRequestedClaimsResolve ==
    Executed =>
        \A i \in 1..Len(CredentialQueries) :
            LET q == CredentialQueries[i]
                matches == Stage1Matches(q.id)
            IN q.claimSets = <<>> =>
                   /\ \A c \in 1..Len(Catalog) :
                          satisfiesMeta(q, Catalog[c]) =>
                              ( (MatchesOfCredential(matches, c) # {})
                                <=> \A j \in 1..Len(q.requestedClaims) :
                                        Resolves(Catalog[c], q.requestedClaims[j]) )
                   /\ \A k \in 1..Len(matches) :
                          /\ satisfiesMeta(q, Catalog[matches[k].credential])
                          /\ matches[k].claims
                                 = [j \in 1..Len(q.requestedClaims) |->
                                        joinPath(q.requestedClaims[j].path)]

\* two requested claims, one of them value-matched, both resolved, and
\* another credential that passes the filter rejected
C6_Witness ==
    /\ pc = "executed"
    /\ Len(CredentialQueries) = 1
    /\ CredentialQueries[1].claimSets = <<>>
    /\ Len(CredentialQueries[1].requestedClaims) = 2
    /\ CredentialQueries[1].requestedClaims[1].values # <<>>
    /\ Len(Catalog) = 2
    /\ satisfiesMeta(CredentialQueries[1], Catalog[1])
    /\ satisfiesMeta(CredentialQueries[1], Catalog[2])
    /\ Len(Stage1Matches("A")) = 1
    /\ Stage1Matches("A")[1].claims = <<"ns.a", "ns.b">>

\* the requested claim a claim-set id refers to (0 if none)
ClaimWithId(q, id) ==
    IF \E r \in 1..Len(q.requestedClaims) : q.requestedClaims[r].id = id
    THEN CHOOSE r \in 1..Len(q.requestedClaims) : q.requestedClaims[r].id = id
    ELSE 0

\* every id of the claim set refers to a requested claim that resolves
ClaimSetResolves(q, cred, claimSet) ==
    \A j \in 1..Len(claimSet) :
        /\ ClaimWithId(q, claimSet[j]) # 0
        /\ Resolves(cred, q.requestedClaims[ClaimWithId(q, claimSet[j])])

ResolvingClaimSets(q, cred) ==
    {s \in 1..Len(q.claimSets) : ClaimSetResolves(q, cred, q.claimSets[s])}

FirstResolvingClaimSet(q, cred) ==
    CHOOSE s \in ResolvingClaimSets(q, cred) :
        \A t \in ResolvingClaimSets(q, cred) : s <= t

\* C7: for a credential query with claim sets, a credential that passes the
\* filter yields at most one match, and yields one iff some claim set fully
\* resolves; its claims are those of the lowest-index such claim set, in
\* that set's order.
C7_FirstResolvingClaimSet ==
    Executed =>
        \A i \in 1..Len(CredentialQueries) :
            LET q == CredentialQueries[i]
                matches == Stage1Matches(q.id)
            IN q.claimSets # <<>> =>
                   /\ \A c \in 1..Len(Catalog) :
                          satisfiesMeta(q, Catalog[c]) =>
                              /\ Cardinality(MatchesOfCredential(matches, c)) <= 1
                              /\ (MatchesOfCredential(matches, c) # {})
                                     <=> (ResolvingClaimSets(q, Catalog[c]) # {})
                   /\ \A k \in 1..Len(matches) :
                          LET cred == Catalog[matches[k].credential]
                              claimSet == q.claimSets[FirstResolvingClaimSet(q, cred)]
                          IN /\ satisfiesMeta(q, cred)
                             /\ ResolvingClaimSets(q, cred) # {}
                             /\ matches[k].claims
                                    = [j \in 1..Len(claimSet) |->
                                           joinPath(q.requestedClaims[
                                               ClaimWithId(q, claimSet[j])].path)]

\* the first claim set fails, the second resolves: one match with the
\* second set's claims; and both sets resolve for another credential
C7_Witness ==
    /\ pc = "executed"
    /\ Len(CredentialQueries) = 1
    /\ CredentialQueries[1].claimSets = << <<"x", "y">>, <<"y">> >>
    /\ Len(Catalog) = 2
    /\ Len(Stage1Matches("A")) = 2
    /\ ResolvingClaimSets(CredentialQueries[1], Catalog[1]) = {2}
    /\ ResolvingClaimSets(CredentialQueries[1], Catalog[2]) = {1, 2}
    /\ Len(Stage1Matches("A")[1].claims) = 1
    /\ Len(Stage1Matches("A")[2].claims) = 2

(***************************************************************************)
(* Properties of consolidation and of the enumeration of combinations.     *)
(***************************************************************************)
Combined == pc = "combined"

ResponseSets == dcqlResponse.credentialSets

SingleMemberOptions(set) == {k \in 1..Len(set.options) : Len(set.options[k].members) = 1}

\* the matches of the single-member options k..Len(options), concatenated
RECURSIVE SingleMemberMatchesFrom(_, _)
SingleMemberMatchesFrom(set, k) ==
    IF k > Len(set.options) THEN <<>>
    ELSE (IF k \in SingleMemberOptions(set)
          THEN set.options[k].members[1].matches
          ELSE <<>>) \o SingleMemberMatchesFrom(set, k + 1)

\* the options with other than one member, in their original order
OtherOptions(set) == SelectSeq(set.options, LAMBDA o : Len(o.members) # 1)

\* C8: consolidation law.  A set with two or more single-member options
\* becomes: the same optional flag; first one synthesized single-member
\* option whose matches are the single-member options' matches
\* concatenated in option order; then the other options in their original
\* order.  A set with fewer single-member options is unchanged.
C8_ConsolidationLaw ==
    Combined =>
        /\ Len(consolidatedCredentialSets) = Len(ResponseSets)
        /\ \A i \in 1..Len(ResponseSets) :
               LET set == ResponseSets[i]
                   new == consolidatedCredentialSets[i]
               IN IF Cardinality(SingleMemberOptions(set)) >= 2
                  THEN /\ new.optional = set.optional
                       /\ Len(new.options) = 1 + Len(OtherOptions(set))
                       /\ Len(new.options[1].members) = 1
                       /\ new.options[1].members[1].matches
                              = SingleMemberMatchesFrom(set, 1)
                       /\ Tail(new.options) = OtherOptions(set)
                  ELSE new = set

\* single-member options on both sides of a two-member option and of an
\* option without members
C8_Witness ==
    /\ Combined
    /\ Len(ResponseSets) >= 1
    /\ ResponseSets[1].options = <<Option2, Option12, Option0, Option1>>
    /\ consolidatedCredentialSets[1].options
           = <<[members |-> <<[matches |-> <<Match2, Match3, Match1>>]>>],
               Option12, Option0>>

\* the arity of a consolidated credential set
Arity(set) == Len(set.options) + (IF set.optional THEN 1 ELSE 0)

RECURSIVE ArityProductFrom(_, _)
ArityProductFrom(sets, i) ==
    IF i > Len(sets) THEN 1 ELSE Arity(sets[i]) * ArityProductFrom(sets, i + 1)

\* the index vectors of the Cartesian product of the arities
IndexVectors(sets) ==
    {p \in [1..Len(sets) -> UNION {0..(Arity(sets[i]) - 1) : i \in 1..Len(sets)}] :
        \A i \in 1..Len(sets) : p[i] < Arity(sets[i])}

\* C9: the number of combinations is the product of the arities of the
\* consolidated sets (1 without sets, 0 when an arity is 0), one
\* combination per distinct index vector of the Cartesian product.
C9_CombinationCount ==
    Combined =>
        /\ Len(combinations) = ArityProductFrom(consolidatedCredentialSets, 1)
        /\ Len(pathCombinations) = Len(combinations)
        /\ \A i, j \in 1..Len(pathCombinations) :
               pathCombinations[i] = pathCombinations[j] => i = j
        /\ {pathCombinations[i] : i \in 1..Len(pathCombinations)}
               = IndexVectors(consolidatedCredentialSets)

\* two sets, the optional one after consolidation: arities 3 and 2
C9_Witness ==
    /\ Combined
    /\ Len(consolidatedCredentialSets) = 2
    /\ ResponseSets[1] = [optional |-> TRUE, options |-> <<Option12, Option1, Option2>>]
    /\ Arity(consolidatedCredentialSets[1]) = 3
    /\ Arity(consolidatedCredentialSets[2]) = 2
    /\ Len(combinations) = 6

\* lexicographic order of index vectors, set 0 most significant
LexLess(p, q) ==
    \E i \in 1..Len(p) :
        /\ p[i] < q[i]
        /\ \A j \in 1..(i - 1) : p[j] = q[j]

\* C10: the index vectors are enumerated in lexicographic order with set 0
\* varying slowest (the omit index of an optional set after its options),
\* and the combination at position i carries combinationNumber i and the
\* elements of the i-th index vector.
C10_LexicographicNumbering ==
    Combined =>
        /\ Len(combinations) = Len(pathCombinations)
        /\ \A i, j \in 1..Len(pathCombinations) :
               i < j => LexLess(pathCombinations[i], pathCombinations[j])
        /\ \A i \in 1..Len(combinations) :
               /\ combinations[i].combinationNumber = i - 1
               /\ combinations[i].elements
                      = elementsOfPath(consolidatedCredentialSets, pathCombinations[i])

\* set 0 optional with one option, set 1 with two: the omission of set 0
\* comes last, after both choices of set 1 under option 0
C10_Witness ==
    /\ Combined
    /\ pathCombinations = << <<0, 0>>, <<0, 1>>, <<1, 0>>, <<1, 1>> >>
    /\ consolidatedCredentialSets[1].optional
    /\ Len(consolidatedCredentialSets[1].options) = 1
    /\ combinations[4].combinationNumber = 3
    /\ Len(combinations[1].elements) > Len(combinations[3].elements)
    /\ combinations[2].elements # combinations[1].elements

(***************************************************************************)
(* CredentialDatabase.cpp: Combination::addToCredmanPicker.  A call to the  *)
(* host is recorded with its function, entry id, two text arguments (title  *)
(* and subtitle, or display name and value), set id and integer argument    *)
(* (set length or set index); arguments a function does not take are "" and *)
(* 0.                                                                       *)
(***************************************************************************)
CredmanCall(fn, entryId, a, b, setId, int) ==
    [fn |-> fn, entryId |-> entryId, a |-> a, b |-> b, setId |-> setId, int |-> int]

\* std::to_string(combinationNumber) + " " + request.protocol
setIdStr(c, r) == ToString(c.combinationNumber) \o " " \o r.protocol

entryIdStr(c, r, credential) == setIdStr(c, r) \o " " \o credential.documentId

\* the calls made for one match: the entry, then one field per claim
callsOfMatch(db, c, r, version, match, setIndex) ==
    LET credential == db.credentials[match.credential]
        entryId == entryIdStr(c, r, credential)
    IN <<IF version >= 2
         THEN CredmanCall("AddEntryToSet", entryId, credential.title, "",
                          setIdStr(c, r), setIndex)
         ELSE CredmanCall("AddStringIdEntry", entryId, credential.title, "", "", 0)>>
       \o [k \in 1..Len(match.claims) |->
              IF version >= 2
              THEN CredmanCall("AddFieldToEntrySet", entryId,
                               credential.claims[match.claims[k]].displayName,
                               credential.claims[match.claims[k]].value,
                               setIdStr(c, r), setIndex)
              ELSE CredmanCall("AddFieldForStringIdEntry", entryId,
                               credential.claims[match.claims[k]].displayName,
                               credential.claims[match.claims[k]].value, "", 0)]

\* for (const auto& match: element.matches): a host below version 2 leaves
\* the loop after the first match
RECURSIVE forEachMatch(_, _, _, _, _, _, _)
forEachMatch(db, c, r, version, matches, m, setIndex) ==
    IF m > Len(matches) THEN <<>>
    ELSE callsOfMatch(db, c, r, version, matches[m], setIndex)
             \o (IF version < 2 THEN <<>>
                 ELSE forEachMatch(db, c, r, version, matches, m + 1, setIndex))

RECURSIVE forEachElementIndexZero(_, _, _, _, _)
forEachElementIndexZero(db, c, r, version, e) ==
    IF e > Len(c.elements) THEN <<>>
    ELSE forEachMatch(db, c, r, version, c.elements[e].matches, 1, 0)
             \o (IF version < 2 THEN <<>>
                 ELSE forEachElementIndexZero(db, c, r, version, e + 1))

\* for (const auto& element : elements) with setIndex counting the
\* elements: a host below version 2 leaves the loop after the first element
RECURSIVE forEachElement(_, _, _, _, _)
forEachElement(db, c, r, version, e) ==
    IF e > Len(c.elements) THEN <<>>
    ELSE forEachMatch(db, c, r, version, c.elements[e].matches, 1, e - 1)
             \o (IF version < 2 THEN <<>>
                 ELSE forEachElement(db, c, r, version, e + 1))

addToCredmanPicker(db, c, r, version) ==
    (IF version >= 2
     THEN <<CredmanCall("AddEntrySet", "", "", "", setIdStr(c, r), Len(c.elements))>>
     ELSE <<>>)
        \o forEachElement(db, c, r, version, 1)

\* claims with display names and values that tell them apart
EmitterClaims(title) ==
    "ns.a" :> [displayName |-> "A", value |-> title \o ".a", matchValue |-> ""]
    @@ "ns.b" :> [displayName |-> "B", value |-> title \o ".b", matchValue |-> ""]

\* the credentials the matches of a combination point to
EmitterCatalog ==
    [protocols |-> <<"openid4vp">>,
     credentials |->
         <<[title |-> "T1", documentId |-> "doc1", mdocDocType |-> "mDL", vcVct |-> "",
            claims |-> EmitterClaims("T1")],
           [title |-> "T2", documentId |-> "doc2", mdocDocType |-> "mDL", vcVct |-> "",
            claims |-> EmitterClaims("T2")],
           [title |-> "T3", documentId |-> "doc3", mdocDocType |-> "", vcVct |-> "pid",
            claims |-> EmitterClaims("T3")]>>]

\* elements of a combination: any list of matches, the empty one included
CombinationElements ==
    {[matches |-> ms] : ms \in SeqsUpTo({Match2, Match3}, MaxCreds)}

Combinations ==
    {[combinationNumber |-> 1, elements |-> es] :
         es \in SeqsUpTo(CombinationElements, MaxSets)}

InitEmitter ==
    /\ pc = "combination"
    /\ combination \in Combinations
    /\ emitterRequest \in {Request("openid4vp", "", <<>>, <<>>, <<>>),
                           Request("openid4vp-v1-signed", "", <<>>, <<>>, <<>>)}
    /\ credmanRuntimeVersion \in 0..3
    /\ credentialDatabase = EmitterCatalog
    /\ dcqlQuery = EmptyQuery
    /\ credentialQueryIdToResponse = <<>>
    /\ dcqlResponse = nullopt
    /\ consolidatedCredentialSets = <<>>
    /\ pathCombinations = <<>>
    /\ combinations = <<>>
    /\ MatcherIdle
    /\ CborIdle

\* Combination::addToCredmanPicker
AddToCredmanPicker ==
    /\ pc = "combination"
    /\ pc' = "emitted"
    /\ pickerCalls' = pickerCalls
                          \o addToCredmanPicker(credentialDatabase, combination,
                                                emitterRequest, credmanRuntimeVersion)
    /\ UNCHANGED <<catalogBlob, requests, n, documentIdsAlreadyUsed, mdocRequest>>
    /\ UNCHANGED <<dcqlVars, emitterVars, cborVars>>

NextEmitter == AddToCredmanPicker

SpecEmitter == InitEmitter /\ [][NextEmitter]_vars

(***************************************************************************)
(* Properties of Combination::addToCredmanPicker.                           *)
(***************************************************************************)
Emitted == pc = "emitted"

CredentialOfMatch(match) == credentialDatabase.credentials[match.credential]

EntryIdOfMatch(match) ==
    ToString(combination.combinationNumber) \o " " \o emitterRequest.protocol
        \o " " \o CredentialOfMatch(match).documentId

SetId == ToString(combination.combinationNumber) \o " " \o emitterRequest.protocol

\* the calls the version-2 interface is to receive for one match
V2CallsOfMatch(match, i) ==
    <<CredmanCall("AddEntryToSet", EntryIdOfMatch(match),
                  CredentialOfMatch(match).title, "", SetId, i)>>
    \o [k \in 1..Len(match.claims) |->
           CredmanCall("AddFieldToEntrySet", EntryIdOfMatch(match),
                       CredentialOfMatch(match).claims[match.claims[k]].displayName,
                       CredentialOfMatch(match).claims[match.claims[k]].value,
                       SetId, i)]

\* the calls the version-1 interface is to receive for one match
V1CallsOfMatch(match) ==
    <<CredmanCall("AddStringIdEntry", EntryIdOfMatch(match),
                  CredentialOfMatch(match).title, "", "", 0)>>
    \o [k \in 1..Len(match.claims) |->
           CredmanCall("AddFieldForStringIdEntry", EntryIdOfMatch(match),
                       CredentialOfMatch(match).claims[match.claims[k]].displayName,
                       CredentialOfMatch(match).claims[match.claims[k]].value,
                       "", 0)]

V1Functions == {"AddStringIdEntry", "AddFieldForStringIdEntry"}

V2Functions == {"AddEntrySet", "AddEntryToSet", "AddFieldToEntrySet"}

\* C11: on a host reporting version >= 2 the calls are one AddEntrySet with
\* the number of elements, then for each element in order and each of its
\* matches in order one AddEntryToSet with the element's index as setIndex
\* followed by one AddFieldToEntrySet per claim of the match in order; every
\* setIndex is below the number of elements and no version-1 call is made.
C11_EntrySetSequence ==
    (Emitted /\ credmanRuntimeVersion >= 2) =>
        /\ pickerCalls =
               <<CredmanCall("AddEntrySet", "", "", "", SetId,
                             Len(combination.elements))>>
               \o Flatten([i \in 1..Len(combination.elements) |->
                      Flatten([m \in 1..Len(combination.elements[i].matches) |->
                          V2CallsOfMatch(combination.elements[i].matches[m], i - 1)])])
        /\ \A k \in 2..Len(pickerCalls) :
               pickerCalls[k].int < Len(combination.elements)
        /\ \A k \in 1..Len(pickerCalls) : pickerCalls[k].fn \notin V1Functions

\* a combination of two elements, the second with two matches of which one
\* has two claims, was emitted to a version-2 host
C11_Witness ==
    /\ Emitted
    /\ credmanRuntimeVersion >= 2
    /\ Len(combination.elements) = 2
    /\ combination.elements[1].matches = <<Match3>>
    /\ combination.elements[2].matches = <<Match2, Match3>>
    /\ Len(pickerCalls) = 6
    /\ pickerCalls[3].int = 1

\* C12 as stated: on a host reporting version < 2 every element of the
\* combination contributes its first match, and only that one, through
\* AddStringIdEntry and AddFieldForStringIdEntry, and no version-2 call is
\* made.
C12_FirstMatchOfEachElement ==
    (Emitted /\ credmanRuntimeVersion < 2) =>
        /\ pickerCalls =
               Flatten([i \in 1..Len(combination.elements) |->
                   IF combination.elements[i].matches = <<>> THEN <<>>
                   ELSE V1CallsOfMatch(combination.elements[i].matches[1])])
        /\ \A k \in 1..Len(pickerCalls) : pickerCalls[k].fn \notin V2Functions

(***************************************************************************)
(* cppbor_parse.cpp: the CBOR decoder, byte by byte.  The recursion of     *)
(* parseRecursively / handleCompound / handleEntries is unrolled into      *)
(* steps: mParentStack holds one frame per open compound item, and a frame *)
(* carries the locals of that item's handleCompound and handleEntries      *)
(* calls next to the incomplete item FullParseClient keeps on its stack.   *)
(* The depth argument of parseRecursively is the number of open frames.    *)
(* Offsets count bytes from begin; end is Len(buffer).                     *)
(***************************************************************************)
kMaxParseDepth == 1000

\* A uint64_t is kept as its significant bytes, most significant first (0 is
\* the empty sequence): the values the decoder handles do not fit the
\* 32-bit integers of TLA+ tools.
significant(eightBytes) ==
    LET nonZero == {i \in 1..8 : eightBytes[i] # 0}
    IN IF nonZero = {} THEN <<>>
       ELSE SubSeq(eightBytes, CHOOSE i \in nonZero : \A j \in nonZero : i <= j, 8)

\* the eight bytes of a uint64_t
wide(value) == [i \in 1..8 |-> IF i > 8 - Len(value) THEN value[i - (8 - Len(value))] ELSE 0]

\* a value below 2^31 as a uint64_t
u64(k) ==
    significant(<<0, 0, 0, 0, (k \div 16777216) % 256, (k \div 65536) % 256,
                  (k \div 256) % 256, k % 256>>)

\* addlInfo <= std::numeric_limits<T>::max() for an unsigned T of `width` bytes
atMost(value, width) == Len(value) <= width

\* static_cast<T>(value) for an unsigned T of `width` bytes
truncate(value, width) ==
    significant([i \in 1..8 |-> IF i > 8 - width THEN wide(value)[i] ELSE 0])

\* the value as a model integer, for values below 2^31
toInt(value) ==
    LET w == wide(value) IN w[5] * 16777216 + w[6] * 65536 + w[7] * 256 + w[8]

fitsInt(value) == atMost(value, 4) /\ wide(value)[5] < 128

\* value - 1, for value > 0
decrement(value) ==
    LET w == wide(value)
        j == CHOOSE k \in 1..8 : w[k] # 0 /\ \A i \in (k + 1)..8 : w[i] = 0
    IN significant([i \in 1..8 |-> IF i < j THEN w[i] ELSE IF i = j THEN w[i] - 1 ELSE 255])

\* value * 2 in uint64_t arithmetic
timesTwo(value) ==
    LET w == wide(value)
    IN significant([i \in 1..8 |->
           ((2 * w[i]) % 256) + (IF i < 8 /\ w[i + 1] >= 128 THEN 1 ELSE 0)])

\* SIZE_MAX of the build, as a uint64_t
SIZE_MAX == [i \in 1..(sizeBits \div 8) |-> 255]

\* static_cast<size_t>(value)
asSizeT(value) == truncate(value, sizeBits \div 8)

\* static_cast<ssize_t>(value) < 0
negativeAsSsizeT(value) == wide(value)[9 - sizeBits \div 8] >= 128

\* MajorType of cppbor.h, as the top three bits of the header byte
majorTypeOf(byte) ==
    CASE byte \div 32 = 0 -> "uint"
      [] byte \div 32 = 1 -> "nint"
      [] byte \div 32 = 2 -> "bstr"
      [] byte \div 32 = 3 -> "tstr"
      [] byte \div 32 = 4 -> "array"
      [] byte \div 32 = 5 -> "map"
      [] byte \div 32 = 6 -> "semantic"
      [] byte \div 32 = 7 -> "simple"

isCompound(anItem) == anItem.type \in {"array", "map", "semantic"}

\* std::string built by the decoder; the insufficient-length message keeps
\* the arguments of its snprintf
ErrorMessage(text, bytesNeeded, type, bytesAvail) ==
    [text |-> text, bytesNeeded |-> bytesNeeded, type |-> type, bytesAvail |-> bytesAvail]

Message(text) == ErrorMessage(text, u64(0), "", 0)

insufficientLengthString(bytesNeeded, bytesAvail, type) ==
    ErrorMessage("Need %zu byte(s) for %s, have %zu.", asSizeT(bytesNeeded), type, bytesAvail)

\* FullParseClient and the read position, after construction
ParseState(bytesPos, stack, theItem, position, errorMessage, parseClient) ==
    [pos |-> bytesPos, mParentStack |-> stack, mTheItem |-> theItem,
     mPosition |-> position, mErrorMessage |-> errorMessage,
     parseClient |-> parseClient]

\* FullParseClient::error, followed by the return of {.., nullptr}
error(st, position, errorMessage) ==
    [st EXCEPT !.mPosition = position, !.mErrorMessage = errorMessage,
               !.parseClient = "nullptr"]

\* IncompleteArray::add, IncompleteMap::add, IncompleteSemanticTag::add;
\* mKeyHeldForAdding is the empty sequence when it holds nothing
add(frame, newItem) ==
    CASE frame.item.type = "array" ->
           [frame EXCEPT !.item.content = Append(@, newItem)]
      [] frame.item.type = "map" ->
           IF frame.mKeyHeldForAdding # <<>>
           THEN [frame EXCEPT !.item.content =
                                  Append(@, <<frame.mKeyHeldForAdding[1], newItem>>),
                              !.mKeyHeldForAdding = <<>>]
           ELSE [frame EXCEPT !.mKeyHeldForAdding = <<newItem>>]
      [] frame.item.type = "semantic" ->
           [frame EXCEPT !.item.content = <<newItem>>]

\* IncompleteArray::finalize, IncompleteMap::finalize,
\* IncompleteSemanticTag::finalize: the base-class part of the item
finalize(frame) == frame.item

\* FullParseClient::appendToLastParent
appendToLastParent(stack, newItem) ==
    [stack EXCEPT ![Len(stack)] = add(@, newItem)]

\* FullParseClient::item for an item that is not compound, then the return
\* of {item end, parseClient} by handleUint, handleNint, handleBool,
\* handleNull and handleString
scalarItem(st, newItem, endPos) ==
    IF st.mParentStack = <<>>
    THEN [st EXCEPT !.mTheItem = newItem, !.mPosition = endPos, !.pos = endPos,
                    !.parseClient = "nullptr"]
    ELSE [st EXCEPT !.mParentStack = appendToLastParent(@, newItem), !.pos = endPos]

\* handleCompound up to its call of handleEntries: FullParseClient::item
\* pushes the compound item and returns this
handleCompound(st, newItem, entryCount, hdrBegin, valueBegin) ==
    [st EXCEPT !.mParentStack =
                   Append(@, [item |-> newItem, entryCount |-> asSizeT(entryCount),
                              hdrBegin |-> hdrBegin, mKeyHeldForAdding |-> <<>>]),
               !.pos = valueBegin]

\* the end of handleCompound: FullParseClient::itemEnd
itemEnd(st, itemEndPos) ==
    LET finalizedItem == finalize(st.mParentStack[Len(st.mParentStack)])
        popped == SubSeq(st.mParentStack, 1, Len(st.mParentStack) - 1)
    IN IF popped = <<>>
       THEN [st EXCEPT !.mParentStack = popped, !.mTheItem = finalizedItem,
                       !.mPosition = itemEndPos, !.pos = itemEndPos,
                       !.parseClient = "nullptr"]
       ELSE [st EXCEPT !.mParentStack = appendToLastParent(popped, finalizedItem),
                       !.pos = itemEndPos]

\* parseLength<T> for T of `width` bytes, at offset lengthPos: {success,
\* value, new pos} and the client after a possible error
parseLength(st, input, lengthPos, width) ==
    IF lengthPos + width > Len(input)
    THEN [success |-> FALSE, value |-> u64(0), pos |-> lengthPos,
          st |-> error(st, lengthPos - 1,
                       insufficientLengthString(u64(width), Len(input) - lengthPos,
                                                "length field"))]
    ELSE [success |-> TRUE,
          value |-> significant([i \in 1..8 |->
                        IF i > 8 - width THEN input[lengthPos + i - (8 - width)] ELSE 0]),
          pos |-> lengthPos + width, st |-> st]

\* handleString<Bstr>, handleString<Tstr>
handleString(st, input, type, length, hdrBegin, valueBegin, errLabel) ==
    LET signed_length == asSizeT(length)
        avail == Len(input) - valueBegin
    IN IF negativeAsSsizeT(length) \/ ~fitsInt(signed_length)
          \/ avail < toInt(signed_length)
       THEN error(st, hdrBegin, insufficientLengthString(length, avail, errLabel))
       ELSE scalarItem(st,
                 Item(type, u64(0),
                      SubSeq(input, valueBegin + 1, valueBegin + toInt(signed_length))),
                 valueBegin + toInt(signed_length))

\* the byte width of the length field announced by tagInt 24..27
lengthWidth(tagInt) ==
    CASE tagInt = 24 -> 1 [] tagInt = 25 -> 2 [] tagInt = 26 -> 4 [] tagInt = 27 -> 8

\* parseRecursively(begin, end, false, parseClient, depth) with depth the
\* number of open frames, up to the point where it would enter
\* handleEntries
parseRecursively(st, input, begin) ==
    IF begin = Len(input)
    THEN error(st, begin, Message("Input buffer is empty. Begin and end cannot point to the same location."))
    ELSE IF Len(st.mParentStack) > kMaxParseDepth
    THEN error(st, begin, Message("Max depth reached.  Cannot parse CBOR structures with more than 1000 levels."))
    ELSE
    LET type == majorTypeOf(input[begin + 1])
        tagInt == input[begin + 1] % 32
        indefinite == type \in {"array", "map"} /\ tagInt = 31
        hdr == IF indefinite
                 THEN [success |-> TRUE, value |-> SIZE_MAX, pos |-> begin + 1, st |-> st]
               ELSE IF tagInt < 24
                 THEN [success |-> TRUE, value |-> u64(tagInt), pos |-> begin + 1, st |-> st]
               ELSE parseLength(st, input, begin + 1, lengthWidth(tagInt))
        addlData == hdr.value
    IN IF ~indefinite /\ tagInt > 27
       THEN error(st, begin, Message("Reserved additional information value or unsupported indefinite length item."))
       ELSE IF ~hdr.success
       THEN hdr.st
       ELSE CASE type = "uint" -> scalarItem(st, Item("uint", addlData, <<>>), hdr.pos)
              [] type = "nint" ->
                   IF wide(addlData)[1] >= 128
                   THEN error(st, begin, Message("NINT values that don't fit in int64_t are not supported."))
                   ELSE scalarItem(st, Item("nint", addlData, <<>>), hdr.pos)
              [] type = "bstr" ->
                   handleString(st, input, "bstr", addlData, begin, hdr.pos, "byte string")
              [] type = "tstr" ->
                   handleString(st, input, "tstr", addlData, begin, hdr.pos, "text string")
              [] type = "array" ->
                   handleCompound(st, Item("array", u64(0), <<>>), addlData, begin, hdr.pos)
              [] type = "map" ->
                   handleCompound(st, Item("map", u64(0), <<>>), timesTwo(addlData), begin, hdr.pos)
              [] type = "semantic" ->
                   handleCompound(st, Item("semantic", addlData, <<>>), u64(1), begin, hdr.pos)
              [] type = "simple" ->
                   IF addlData \in {u64(20), u64(21), u64(22)}
                   THEN scalarItem(st, Item("simple", addlData, <<>>), hdr.pos)
                   ELSE error(st, begin, Message("Unsupported floating-point or simple value."))

\* one pass of the while loop of handleEntries for the innermost open item
handleEntries(st, input) ==
    LET top == st.mParentStack[Len(st.mParentStack)]
        counted == [st EXCEPT !.mParentStack[Len(st.mParentStack)].entryCount =
                                  decrement(@)]
    IN IF st.pos = Len(input)
       THEN error(counted, top.hdrBegin,
                  Message("Not enough entries for " \o top.item.type \o "."))
       ELSE IF input[st.pos + 1] = 255
       THEN itemEnd(counted, st.pos + 1)
       ELSE parseRecursively(counted, input, st.pos)

(***************************************************************************)
(* Inputs of the decoder: every byte string of at most MaxBytes bytes over *)
(* an alphabet with one header of each kind, and the inputs whose length   *)
(* fields and nesting reach the limits of the decoder.                     *)
(***************************************************************************)
MaxBytes == 3

\* 0x01 uint 1, 0x18 uint with a one-byte value, 0x41 byte string of one
\* byte, 0x81 and 0x82 arrays of one and two items, 0x9F array of
\* indefinite length, 0xA1 map of one pair, 0xC0 semantic tag 0, 0xFF break
ByteAlphabet == {1, 24, 65, 129, 130, 159, 161, 192, 255}

\* `levels` array headers 0x81, one inside the other, around `innermost`
Nested(levels, innermost) ==
    [i \in 1..(levels + Len(innermost)) |->
        IF i <= levels THEN 129 ELSE innermost[i - levels]]

LimitInputs ==
    { Nested(kMaxParseDepth, <<1>>),          \* 1000 arrays around a uint
      Nested(kMaxParseDepth + 1, <<1>>),      \* 1001 arrays around a uint
      Nested(kMaxParseDepth, <<128>>),        \* 1000 arrays around an empty array
      <<89, 0>>,                              \* byte string, half a length field
      <<27, 0, 0, 0, 0, 0, 0, 0>>,            \* uint, seven of eight value bytes
      <<27, 0, 0, 0, 1, 0, 0, 0, 0>>,         \* uint 2^32
      <<26, 0, 1, 0, 0>>,                     \* uint 2^16 in four bytes
      <<91, 128, 0, 0, 0, 0, 0, 0, 0>>,       \* byte string of 2^63 bytes
      <<91, 0, 0, 0, 1, 0, 0, 0, 1, 1>>,      \* byte string of 2^32 + 1 bytes
      <<123, 0, 0, 0, 1, 0, 0, 0, 0>>,        \* text string of 2^32 bytes
      <<187, 128, 0, 0, 0, 0, 0, 0, 0>> }     \* map of 2^63 pairs

Inputs == SeqsUpTo(ByteAlphabet, MaxBytes) \cup LimitInputs

\* the builds of the matcher: 32-bit WebAssembly and the 64-bit host of the
\* tests
SizeBits == {32, 64}

NoError == Message("")

InitCbor ==
    /\ pc = "parse"
    /\ buffer \in Inputs
    /\ sizeBits \in SizeBits
    /\ pos = 0
    /\ mParentStack = <<>>
    /\ mTheItem = NoItem
    /\ mPosition = 0
    /\ mErrorMessage = NoError
    /\ theMap = NoItem
    /\ mCanonicalized = FALSE
    /\ callbacks = <<>>
    /\ MatcherIdle
    /\ EmitterIdle
    /\ credentialDatabase = EmptyCatalog
    /\ dcqlQuery = EmptyQuery
    /\ credentialQueryIdToResponse = <<>>
    /\ dcqlResponse = nullopt
    /\ consolidatedCredentialSets = <<>>
    /\ pathCombinations = <<>>
    /\ combinations = <<>>

\* the decoder's state as one value, and its assignment to the variables
current == ParseState(pos, mParentStack, mTheItem, mPosition, mErrorMessage, "this")

become(st) ==
    /\ pos' = st.pos
    /\ mParentStack' = st.mParentStack
    /\ mTheItem' = st.mTheItem
    /\ mPosition' = st.mPosition
    /\ mErrorMessage' = st.mErrorMessage
    /\ pc' = IF st.parseClient = "nullptr" THEN "returned" ELSE "entries"
    /\ UNCHANGED <<buffer, sizeBits, theMap, mCanonicalized, callbacks, dcqlVars, matcherVars,
                   emitterVars>>

\* cppbor::parse(begin, end): the call of parseRecursively at depth 0
Parse ==
    /\ pc = "parse"
    /\ become(parseRecursively(current, buffer, 0))

\* one pass of the loop of handleEntries of the innermost open item
HandleEntries ==
    /\ pc = "entries"
    /\ mParentStack[Len(mParentStack)].entryCount # u64(0)
    /\ become(handleEntries(current, buffer))

\* the loop of handleEntries has run out: handleCompound closes the item
ItemEnd ==
    /\ pc = "entries"
    /\ mParentStack[Len(mParentStack)].entryCount = u64(0)
    /\ become(itemEnd(current, pos))

NextCbor == Parse \/ HandleEntries \/ ItemEnd

SpecCbor == InitCbor /\ [][NextCbor]_vars

\* FullParseClient::parseResult, once parse has returned
Returned == pc = "returned"

Succeeded == Returned /\ mTheItem # NoItem

Failed == Returned /\ mTheItem = NoItem

(***************************************************************************)
(* Properties of the decoder.                                              *)
(***************************************************************************)
DepthError ==
    Message("Max depth reached.  Cannot parse CBOR structures with more than 1000 levels.")

\* a one-byte header of an array, map or semantic tag
IsCompoundHeader(byte) == majorTypeOf(byte) \in {"array", "map", "semantic"}

\* a one-byte header of an array, map or semantic tag that holds an item
OpensLevel(byte) ==
    /\ IsCompoundHeader(byte)
    /\ byte % 32 \in 1..23 \/ (byte % 32 = 31 /\ majorTypeOf(byte) # "semantic")

\* the input is nested more than `levels` levels deep, counting every
\* array, map and semantic-tag level
NestedDeeperThan(input, levels) ==
    /\ Len(input) > levels
    /\ \A i \in 1..levels : OpensLevel(input[i])
    /\ IsCompoundHeader(input[levels + 1])

\* C15: an input nested 1001 levels deep fails to parse with a depth error,
\* and an input nested 1000 levels deep parses successfully.  While the
\* decoder runs, this means that with more than kMaxParseDepth items open
\* and no error reported, input is left to be read: the depth error is only
\* raised by reading a further item.
C15_DepthBound ==
    /\ (Len(mParentStack) > kMaxParseDepth /\ pc = "entries") => pos < Len(buffer)
    /\ (Returned /\ NestedDeeperThan(buffer, kMaxParseDepth)) =>
           (Failed /\ mErrorMessage = DepthError)
    /\ (Returned /\ buffer = Nested(kMaxParseDepth, <<1>>)) => Succeeded

\* the item is a complete tree: every semantic tag in it holds its tagged
\* item (SemanticTag::mTaggedItem is not null)
RECURSIVE FullyPopulated(_)
FullyPopulated(tree) ==
    CASE tree.type = "semantic" ->
           Len(tree.content) = 1 /\ FullyPopulated(tree.content[1])
      [] tree.type = "array" ->
           \A i \in 1..Len(tree.content) : FullyPopulated(tree.content[i])
      [] tree.type = "map" ->
           \A i \in 1..Len(tree.content) :
               FullyPopulated(tree.content[i][1]) /\ FullyPopulated(tree.content[i][2])
      [] OTHER -> tree # NoItem

\* inputs short enough for the returned tree to be walked
ShortInput == Len(buffer) < kMaxParseDepth

\* the two outcomes of parse, without the statement about the tree
TwoOutcomes ==
    Returned =>
        \/ /\ mTheItem # NoItem
           /\ mErrorMessage = NoError
           /\ mPosition = pos
           /\ mPosition <= Len(buffer)
        \/ /\ mTheItem = NoItem
           /\ mErrorMessage # NoError
           /\ \/ mPosition = pos
              \/ mParentStack # <<>> /\ mPosition = mParentStack[Len(mParentStack)].hdrBegin

\* C16: parse returns exactly one of two outcomes: a non-null item, an
\* empty error message and the position after the item; or a null item, a
\* non-empty message and the position of the header that could not be
\* parsed.  A non-null item is a complete, fully populated tree.
C16_ParseOutcomes ==
    /\ TwoOutcomes
    /\ (Succeeded /\ ShortInput) => FullyPopulated(mTheItem)

\* the decoder is about to read the header of an item at the read position
ReadsItem ==
    /\ Len(mParentStack) <= kMaxParseDepth
    /\ pos < Len(buffer)
    /\ \/ pc = "parse"
       \/ /\ pc = "entries"
          /\ mParentStack[Len(mParentStack)].entryCount # u64(0)
          /\ buffer[pos + 1] # 255

\* the header at the read position announces a length field of more bytes
\* than remain
LengthFieldCut ==
    /\ buffer[pos + 1] % 32 \in 24..27
    /\ Len(buffer) - (pos + 1) < lengthWidth(buffer[pos + 1] % 32)

\* the length the header at the read position declares, and where the
\* header ends
Declared ==
    IF buffer[pos + 1] % 32 < 24
    THEN [value |-> u64(buffer[pos + 1] % 32), pos |-> pos + 1]
    ELSE parseLength(current, buffer, pos + 1, lengthWidth(buffer[pos + 1] % 32))

\* the header at the read position is that of a byte or text string that
\* declares more bytes than remain after the header
StringTooLong ==
    /\ majorTypeOf(buffer[pos + 1]) \in {"bstr", "tstr"}
    /\ buffer[pos + 1] % 32 <= 27
    /\ ~LengthFieldCut
    /\ \/ ~fitsInt(Declared.value)
       \/ toInt(Declared.value) > Len(buffer) - Declared.pos

InsufficientLength(field) ==
    /\ mTheItem = NoItem
    /\ mErrorMessage.text = "Need %zu byte(s) for %s, have %zu."
    /\ mErrorMessage.type = field

\* C17: a header whose length field needs more bytes than remain, and a
\* byte or text string that declares more bytes than remain (2^63 and more
\* included), make the decoder fail with an insufficient-length error that
\* names the field, instead of producing an item.
C17_InsufficientLength ==
    [][ReadsItem =>
           /\ LengthFieldCut => (pc' = "returned" /\ InsufficientLength("length field")')
           /\ StringTooLong =>
                  /\ pc' = "returned"
                  /\ InsufficientLength(IF majorTypeOf(buffer[pos + 1]) = "bstr"
                                        THEN "byte string" ELSE "text string")']_vars

\* the byte at the read position is 0xFF and the decoder is about to look
\* at it, as the first byte of the input or as the next entry of the
\* innermost open item
BreakIsNext ==
    /\ pos < Len(buffer)
    /\ buffer[pos + 1] = 255
    /\ \/ pc = "parse"
       \/ pc = "entries" /\ mParentStack[Len(mParentStack)].entryCount # u64(0)

\* the innermost open item is an array or map of indefinite length
InIndefiniteLength ==
    /\ pc = "entries"
    /\ LET header == buffer[mParentStack[Len(mParentStack)].hdrBegin + 1]
       IN majorTypeOf(header) \in {"array", "map"} /\ header % 32 = 31

\* C18: the break byte 0xFF is accepted only as the terminator of an array
\* or map of indefinite length; at top level, after a semantic-tag header
\* and inside an array or map of definite length it makes the parse fail.
C18_BreakOnlyTerminates ==
    [][(BreakIsNext /\ ~InIndefiniteLength) =>
           (pc' = "returned" /\ mTheItem' = NoItem /\ mErrorMessage' # NoError)]_vars

(***************************************************************************)
(* cppbor.cpp, cppbor.h: the encoder.                                      *)
(***************************************************************************)
\* headerSize(addlInfo)
headerSize(addlInfo) ==
    IF atMost(addlInfo, 1) /\ toInt(addlInfo) < 24 THEN 1
    ELSE IF atMost(addlInfo, 1) THEN 2
    ELSE IF atMost(addlInfo, 2) THEN 3
    ELSE IF atMost(addlInfo, 4) THEN 5
    ELSE 9

\* the MajorType value of cppbor.h (type << 5)
majorTypeBits(type) ==
    CASE type = "uint" -> 0 [] type = "nint" -> 32 [] type = "bstr" -> 64
      [] type = "tstr" -> 96 [] type = "array" -> 128 [] type = "map" -> 160
      [] type = "semantic" -> 192 [] type = "simple" -> 224

\* encodeHeader(type, addlInfo, ...): the bytes written
encodeHeader(type, addlInfo) ==
    LET sz == headerSize(addlInfo)
        w == wide(addlInfo)
    IN CASE sz = 1 -> <<majorTypeBits(type) + w[8]>>
         [] sz = 2 -> <<majorTypeBits(type) + 24, w[8]>>
         [] sz = 3 -> <<majorTypeBits(type) + 25, w[7], w[8]>>
         [] sz = 5 -> <<majorTypeBits(type) + 26, w[5], w[6], w[7], w[8]>>
         [] sz = 9 -> <<majorTypeBits(type) + 27>> \o w

\* Item::encode of Uint, Nint, Bstr, Tstr, Array, Map, SemanticTag, Bool and
\* Null; encoding a SemanticTag without tagged item dereferences null
RECURSIVE encode(_)
RECURSIVE encodeEntries(_, _)
encodeEntries(entries, i) ==
    IF i > Len(entries) THEN <<>>
    ELSE encode(entries[i]) \o encodeEntries(entries, i + 1)

encode(x) ==
    CASE x.type \in {"uint", "nint", "simple"} -> encodeHeader(x.type, x.value)
      [] x.type \in {"bstr", "tstr"} ->
           encodeHeader(x.type, u64(Len(x.content))) \o x.content
      [] x.type = "array" ->
           encodeHeader("array", u64(Len(x.content))) \o encodeEntries(x.content, 1)
      [] x.type = "map" ->
           encodeHeader("map", u64(Len(x.content)))
               \o encodeEntries(Flatten(x.content), 1)
      [] x.type = "semantic" ->
           encodeHeader("semantic", x.value) \o encode(x.content[1])

IsPrefix(short, long) ==
    Len(short) <= Len(long) /\ \A i \in 1..Len(short) : short[i] = long[i]

\* no byte of the input is the header of an array or map of indefinite
\* length
DefiniteLength(input) == \A i \in 1..Len(input) : input[i] \notin {159, 191}

\* C19: for every item x the decoder produces on a definite-length input b,
\* encode(x) is a prefix of b.
C19_RoundTrip ==
    (Succeeded /\ ShortInput /\ DefiniteLength(buffer)) =>
        (FullyPopulated(mTheItem) /\ IsPrefix(encode(mTheItem), buffer))

(***************************************************************************)
(* cppbor.cpp, cppbor.h: Map::canonicalize.  theMap is a Map built through *)
(* its public interface; its entries are <<key, value>> pairs.             *)
(***************************************************************************)
MaxEntries == 3

\* Item::encodedSize of Uint, Nint, Bstr, Tstr, Array, Map, SemanticTag,
\* Bool and Null
RECURSIVE encodedSize(_)
RECURSIVE encodedSizeOfEntries(_, _)
encodedSizeOfEntries(entries, i) ==
    IF i > Len(entries) THEN 0
    ELSE encodedSize(entries[i]) + encodedSizeOfEntries(entries, i + 1)

encodedSize(x) ==
    CASE x.type \in {"uint", "nint"} -> headerSize(x.value)
      [] x.type = "simple" -> 1
      [] x.type \in {"bstr", "tstr"} -> headerSize(u64(Len(x.content))) + Len(x.content)
      [] x.type = "array" ->
           headerSize(u64(Len(x.content))) + encodedSizeOfEntries(x.content, 1)
      [] x.type = "map" ->
           headerSize(u64(Len(x.content))) + encodedSizeOfEntries(Flatten(x.content), 1)
      [] x.type = "semantic" -> headerSize(x.value) + encodedSize(x.content[1])

\* std::lexicographical_compare on bytes
lexicographical_compare(a, b) ==
    \/ \E i \in 1..Len(a) :
           /\ i <= Len(b)
           /\ a[i] < b[i]
           /\ \A j \in 1..(i - 1) : a[j] = b[j]
    \/ Len(a) < Len(b) /\ \A j \in 1..Len(a) : a[j] = b[j]

\* Map::keyLess
keyLessLexicalOnly(a, b) == lexicographical_compare(encode(a), encode(b))

keyLess(a, b) ==
    IF encodedSize(a) < encodedSize(b) THEN TRUE
    ELSE IF encodedSize(a) > encodedSize(b) THEN FALSE
    ELSE lexicographical_compare(encode(a), encode(b))

\* what std::sort may leave: the entries in any order in which no entry's
\* key is less than the key of an entry before it
sorted(entries) ==
    LET k == Len(entries)
        orders == {f \in [1..k -> 1..k] : \A i, j \in 1..k : i # j => f[i] # f[j]}
    IN {[i \in 1..k |-> entries[f[i]]] :
           f \in {g \in orders :
                     \A i, j \in 1..k :
                         i < j => ~keyLess(entries[g[j]][1], entries[g[i]][1])}}

\* keys and values the maps are built from: the integers 1, 24 and 256, -1
\* and the text string "a" (encoded in 1, 2, 3, 1 and 2 bytes); false and
\* true
Keys ==
    {Item("uint", u64(1), <<>>), Item("uint", u64(24), <<>>),
     Item("uint", u64(256), <<>>), Item("nint", u64(0), <<>>),
     Item("tstr", <<>>, <<97>>)}

Values == {Item("simple", u64(20), <<>>), Item("simple", u64(21), <<>>)}

InitCanon ==
    /\ pc = "built"
    /\ theMap = Item("map", <<>>, <<>>)
    /\ mCanonicalized = FALSE
    /\ callbacks = <<>>
    /\ buffer = <<>>
    /\ sizeBits = 64
    /\ pos = 0
    /\ mParentStack = <<>>
    /\ mTheItem = NoItem
    /\ mPosition = 0
    /\ mErrorMessage = NoError
    /\ MatcherIdle
    /\ EmitterIdle
    /\ credentialDatabase = EmptyCatalog
    /\ dcqlQuery = EmptyQuery
    /\ credentialQueryIdToResponse = <<>>
    /\ dcqlResponse = nullopt
    /\ consolidatedCredentialSets = <<>>
    /\ pathCombinations = <<>>
    /\ combinations = <<>>

canonUnchanged ==
    UNCHANGED <<buffer, sizeBits, pos, mParentStack, mTheItem, mPosition, mErrorMessage,
                callbacks, dcqlVars, matcherVars, emitterVars>>

\* Map::add(key, value)
Add ==
    /\ Len(theMap.content) < MaxEntries
    /\ \E key \in Keys, value \in Values :
           theMap' = [theMap EXCEPT !.content = Append(@, <<key, value>>)]
    /\ mCanonicalized' = FALSE
    /\ pc' = "built"
    /\ canonUnchanged

\* Map::operator[](index), not const, and an assignment to the entry
Subscript ==
    /\ \E index \in 1..Len(theMap.content), key \in Keys, value \in Values :
           theMap' = [theMap EXCEPT !.content[index] = <<key, value>>]
    /\ mCanonicalized' = FALSE
    /\ pc' = "built"
    /\ canonUnchanged

\* Map::canonicalize(false)
Canonicalize ==
    /\ IF Len(theMap.content) < 2 \/ mCanonicalized
       THEN UNCHANGED <<theMap, mCanonicalized>>
       ELSE /\ \E entries \in sorted(theMap.content) :
                  theMap' = [theMap EXCEPT !.content = entries]
            /\ mCanonicalized' = TRUE
    /\ pc' = "canonicalized"
    /\ canonUnchanged

NextCanon == Add \/ Subscript \/ Canonicalize

SpecCanon == InitCanon /\ [][NextCanon]_vars

\* the order the claim states, over the entries of a map; two entries with
\* the same key have no order between them
CanonicalOrder(entries) ==
    \A i, j \in 1..Len(entries) :
        LET a == encode(entries[i][1])
            b == encode(entries[j][1])
        IN a # b =>
              /\ Len(a) < Len(b) => i < j
              /\ Len(a) = Len(b) => (i < j <=> lexicographical_compare(a, b))

PairsOf(entries) == {entries[i] : i \in 1..Len(entries)}

Callback(method, returned) == [method |-> method, returned |-> returned]

\* the ParseClient method a step of the parser calls: error() sets the
\* message, itemEnd() pops the open item, item() does neither
methodOf(before, after) ==
    IF after.mErrorMessage # before.mErrorMessage THEN "error"
    ELSE IF Len(after.mParentStack) < Len(before.mParentStack) THEN "itemEnd"
    ELSE "item"

\* the client's answer to the call: error() returns nothing and the parser
\* returns nullptr itself; item() and itemEnd() return what FullParseClient
\* returns, or nullptr when the client chooses to end the parse
answer(before, after, endsParse) ==
    IF methodOf(before, after) # "error" /\ endsParse
    THEN [after EXCEPT !.parseClient = "nullptr"]
    ELSE after

\* `if (!parseClient) return {hdrBegin, nullptr};` after item(), after
\* parseRecursively and after handleEntries, and the returns of
\* {.., nullptr} after error(): the parse unwinds without another call
unwindsIgnoringClient(st) ==
    st.parseClient = "nullptr" /\ (st.mParentStack = <<>> \/ st.mErrorMessage # NoError)

unwinds(st) == st.parseClient = "nullptr"

\* one step of the parser with the client's answer recorded
stream(before, after, endsParse) ==
    LET st == answer(before, after, endsParse)
    IN /\ pos' = st.pos
       /\ mParentStack' = st.mParentStack
       /\ mTheItem' = st.mTheItem
       /\ mPosition' = st.mPosition
       /\ mErrorMessage' = st.mErrorMessage
       /\ callbacks' = Append(callbacks,
                              Callback(methodOf(before, after),
                                       IF methodOf(before, after) = "error"
                                       THEN "void" ELSE st.parseClient))
       /\ pc' = IF unwinds(st) THEN "returned" ELSE "entries"
       /\ UNCHANGED <<buffer, sizeBits, theMap, mCanonicalized, dcqlVars,
                      matcherVars, emitterVars>>

\* the inputs of the streaming parse: those of the decoder that are short
\* enough to list every call
InitStream == InitCbor /\ Len(buffer) < kMaxParseDepth

\* cppbor::parse(begin, end, parseClient)
StreamParse ==
    /\ pc = "parse"
    /\ \E endsParse \in BOOLEAN :
           stream(current, parseRecursively(current, buffer, 0), endsParse)

\* one pass of the loop of handleEntries of the innermost open item
StreamHandleEntries ==
    /\ pc = "entries"
    /\ mParentStack[Len(mParentStack)].entryCount # u64(0)
    /\ \E endsParse \in BOOLEAN :
           stream(current, handleEntries(current, buffer), endsParse)

\* handleCompound calls itemEnd once the loop of handleEntries has run out
StreamItemEnd ==
    /\ pc = "entries"
    /\ mParentStack[Len(mParentStack)].entryCount = u64(0)
    /\ \E endsParse \in BOOLEAN :
           stream(current, itemEnd(current, pos), endsParse)

NextStream == StreamParse \/ StreamHandleEntries \/ StreamItemEnd

SpecStream == InitStream /\ [][NextStream]_vars

\* a call that ends the callback stream: error(), or an item()/itemEnd()
\* that returned nullptr
EndsStream(call) == call.method = "error" \/ call.returned = "nullptr"

\* C21: in a streaming parse the callback stream ends as soon as the client
\* returns nullptr from item()/itemEnd() or the parser calls error(): no
\* item, itemEnd or error call follows either event, so error() is called
\* at most once per parse.
C21_StreamEnds ==
    /\ \A i \in 1..Len(callbacks) : EndsStream(callbacks[i]) => i = Len(callbacks)
    /\ Cardinality({i \in 1..Len(callbacks) : callbacks[i].method = "error"}) <= 1
    /\ (callbacks # <<>> /\ EndsStream(callbacks[Len(callbacks)])) => pc = "returned"

\* the client ended the parse from item() with an item still open and
\* input left unread
C21_Witness ==
    /\ pc = "returned"
    /\ Len(callbacks) >= 2
    /\ callbacks[Len(callbacks)] = Callback("item", "nullptr")
    /\ mParentStack # <<>>
    /\ pos < Len(buffer)
    /\ mErrorMessage = NoError


(***************************************************************************)
(* The catalog loader on its own: the constructor of CredentialDatabase    *)
(* applied to catalogs whose credential maps carry an mdoc projection, an  *)
(* sdjwt projection, both or neither.                                      *)
(***************************************************************************)
LoaderCredentialItems ==
    CredentialItems \cup
    { CredentialItem("T0", <<>>),
      CredentialItem("T4", << <<"sdjwt", SdjwtItem("doc4", "pid",
                                   << <<"a", ClaimDetails("1")>> >>)>> >>),
      CredentialItem("T5", << <<"mdoc", MdocItem("doc5", "", <<>>)>> >>) }

LoaderBlobs ==
    {ParseFailure}
        \cup {Parsed(CatalogItem(AllProtocols, cs)) :
                 cs \in SeqsUpTo(LoaderCredentialItems, MaxCreds)}
        \cup {Parsed(item) : item \in MalformedCatalogItems}

InitLoader ==
    /\ pc = "start"
    /\ catalogBlob \in LoaderBlobs
    /\ requests = <<>>
    /\ n = 0
    /\ documentIdsAlreadyUsed = {}
    /\ pickerCalls = <<>>
    /\ mdocRequest = NoMdocRequest
    /\ credentialDatabase = EmptyCatalog
    /\ dcqlQuery = EmptyQuery
    /\ credentialQueryIdToResponse = <<>>
    /\ dcqlResponse = nullopt
    /\ consolidatedCredentialSets = <<>>
    /\ pathCombinations = <<>>
    /\ combinations = <<>>
    /\ EmitterIdle
    /\ CborIdle

NextLoader == LoadCatalog

SpecLoader == InitLoader /\ [][NextLoader]_vars

\* the constructor has returned for a catalog it reads without undefined
\* behaviour
Loaded == pc = "loop" /\ catalogBlob.ok /\ CatalogDefined(catalogBlob.item)

\* C22: every Credential in the list produced by the catalog loader, for
\* any catalog that decodes, has at least one of mdocDocType or vcVct
\* non-empty: a credential map with neither an mdoc nor an sdjwt projection
\* is never added to the list.
C22_HasProjection ==
    Loaded =>
        \A i \in 1..Len(credentialDatabase.credentials) :
            \/ credentialDatabase.credentials[i].mdocDocType # ""
            \/ credentialDatabase.credentials[i].vcVct # ""


(***************************************************************************)
(* The mdoc matcher of identity-appsupport: main.cpp offers every          *)
(* credential that mdocMatchesRequest accepts to the picker, in catalog    *)
(* order, without a set of used ids.  The credential's mdocId is its       *)
(* documentId here and its dataElements are its claims.                    *)
(***************************************************************************)
MdocDataElement(displayName, value) ==
    [displayName |-> displayName, value |-> value, matchValue |-> ""]

\* two mdocs of docType mDL that share the element ns.b, one of another
\* docType, and a credential without mdoc projection
MdocCredentials ==
    { [title |-> "T1", documentId |-> "doc1", mdocDocType |-> "mDL", vcVct |-> "",
       claims |-> ("ns.a" :> MdocDataElement("A", "1") @@ "ns.b" :> MdocDataElement("B", "2"))],
      [title |-> "T2", documentId |-> "doc2", mdocDocType |-> "mDL", vcVct |-> "",
       claims |-> ("ns.b" :> MdocDataElement("B2", "3"))],
      [title |-> "T3", documentId |-> "doc3", mdocDocType |-> "org.other", vcVct |-> "",
       claims |-> ("ns.a" :> MdocDataElement("A3", "4"))],
      [title |-> "T4", documentId |-> "", mdocDocType |-> "", vcVct |-> "",
       claims |-> <<>>] }

MdocCatalogs ==
    {[protocols |-> <<>>, credentials |-> cs] : cs \in SeqsUpTo(MdocCredentials, MaxCreds)}

\* ns.c is held by no credential
RequestedDataElements ==
    {MdocRequestDataElement("ns", name, retain) : name \in {"a", "b", "c"}, retain \in BOOLEAN}

MdocRequest(docType, dataElements) == [docType |-> docType, dataElements |-> dataElements]

MdocRequests ==
    {MdocRequest(docType, des) :
        docType \in {"mDL", "org.other"}, des \in SeqsUpTo(RequestedDataElements, MaxClaims)}

\* for (auto& credential : db->credentials) { if (mdocMatchesRequest) ... }
RECURSIVE mdocForEachCredential(_, _, _)
mdocForEachCredential(db, parsedRequest, i) ==
    IF i > Len(db.credentials) THEN <<>>
    ELSE (IF matchesRequest(db.credentials[i], parsedRequest)
          THEN addCredentialToPicker(db.credentials[i], parsedRequest, 0)
          ELSE <<>>)
         \o mdocForEachCredential(db, parsedRequest, i + 1)

InitMdoc ==
    /\ pc = "request"
    /\ credentialDatabase \in MdocCatalogs
    /\ mdocRequest \in MdocRequests
    /\ catalogBlob = [ok |-> FALSE, item |-> "none"]
    /\ requests = <<>>
    /\ n = 0
    /\ documentIdsAlreadyUsed = {}
    /\ pickerCalls = <<>>
    /\ dcqlQuery = EmptyQuery
    /\ credentialQueryIdToResponse = <<>>
    /\ dcqlResponse = nullopt
    /\ consolidatedCredentialSets = <<>>
    /\ pathCombinations = <<>>
    /\ combinations = <<>>
    /\ EmitterIdle
    /\ CborIdle

\* if (mdocRequest) { ... }: the loop over the credentials for one request
MatchMdoc ==
    /\ pc = "request"
    /\ pc' = "matched"
    /\ pickerCalls' = mdocForEachCredential(credentialDatabase, mdocRequest, 1)
    /\ UNCHANGED <<catalogBlob, requests, n, documentIdsAlreadyUsed, mdocRequest>>
    /\ UNCHANGED <<dcqlVars, emitterVars, cborVars>>

NextMdoc == MatchMdoc

SpecMdoc == InitMdoc /\ [][NextMdoc]_vars

\* the combined name of a requested data element
CombinedName(requested) == requested.namespaceName \o "." \o requested.dataElementName

\* the requested data elements the credential holds, in request order
HeldBy(credential) ==
    SelectSeq(mdocRequest.dataElements,
              LAMBDA requested : CombinedName(requested) \in DOMAIN credential.claims)

\* the credential is one the request asks for: same docType, and at least
\* one requested data element held
Requested(credential) ==
    credential.mdocDocType = mdocRequest.docType /\ HeldBy(credential) # <<>>

\* the calls one matching credential is to produce: its entry, then a field
\* for each requested data element it holds
CallsFor(credential) ==
    <<PickerCall("AddStringIdEntry", credential.documentId, credential.title, "", 0)>>
        \o [k \in 1..Len(HeldBy(credential)) |->
               PickerCall("AddFieldForStringIdEntry", credential.documentId,
                          credential.claims[CombinedName(HeldBy(credential)[k])].displayName,
                          credential.claims[CombinedName(HeldBy(credential)[k])].value, 0)]

\* the calls of the credentials from position i on that the request asks for
RECURSIVE CallsFrom(_)
CallsFrom(i) ==
    IF i > Len(credentialDatabase.credentials) THEN <<>>
    ELSE (IF Requested(credentialDatabase.credentials[i])
          THEN CallsFor(credentialDatabase.credentials[i]) ELSE <<>>)
         \o CallsFrom(i + 1)

\* C24: in the mdoc matcher path each matching credential produces exactly
\* one AddStringIdEntry call followed by the AddFieldForStringIdEntry calls
\* for that same credential id: one field (displayName, value) per requested
\* data element that exists in the credential, in the order the elements
\* were requested; elements the credential lacks produce no field, and no
\* field call for a credential precedes its entry call.
C24_EntryThenFields ==
    pc = "matched" =>
        /\ \A i \in 1..Len(credentialDatabase.credentials) :
               matchesRequest(credentialDatabase.credentials[i], mdocRequest) =>
                   addCredentialToPicker(credentialDatabase.credentials[i], mdocRequest, 0)
                       = CallsFor(credentialDatabase.credentials[i])
        /\ pickerCalls = CallsFrom(1)
        /\ pickerCalls # <<>> => pickerCalls[1].fn = "AddStringIdEntry"
        /\ \A k \in 2..Len(pickerCalls) :
               pickerCalls[k].fn = "AddFieldForStringIdEntry" =>
                   pickerCalls[k].id = pickerCalls[k - 1].id

\* doc1 is asked for ns.b, ns.c and ns.a in this order: its entry is
\* followed by the field of ns.b, then the field of ns.a, and nothing for
\* ns.c
C24_Witness ==
    /\ pc = "matched"
    /\ Len(mdocRequest.dataElements) >= 2
    /\ CombinedName(mdocRequest.dataElements[1]) = "ns.b"
    /\ \E e \in 2..Len(mdocRequest.dataElements) :
           CombinedName(mdocRequest.dataElements[e]) = "ns.a"
    /\ Len(pickerCalls) >= 3
    /\ pickerCalls[1] = PickerCall("AddStringIdEntry", "doc1", "T1", "", 0)
    /\ pickerCalls[2] = PickerCall("AddFieldForStringIdEntry", "doc1", "B", "2", 0)
    /\ pickerCalls[3] = PickerCall("AddFieldForStringIdEntry", "doc1", "A", "1", 0)

\* C25: in the mdoc matcher a credential matches an MdocRequest iff its
\* mdocDocType equals the request's docType and at least one requested
\* (namespace, dataElement) pair exists in the credential's data elements;
\* a request with zero data elements matches no credential, and a
\* credential missing some but not all requested elements still matches.
C25_MatchesIffDocTypeAndOneElement ==
    pc = "matched" =>
        /\ \A i \in 1..Len(credentialDatabase.credentials) :
               matchesRequest(credentialDatabase.credentials[i], mdocRequest)
                   <=> /\ credentialDatabase.credentials[i].mdocDocType = mdocRequest.docType
                       /\ \E requested \in {mdocRequest.dataElements[e] :
                                               e \in 1..Len(mdocRequest.dataElements)} :
                              CombinedName(requested)
                                  \in DOMAIN credentialDatabase.credentials[i].claims
        /\ Cardinality(EntryCalls)
               = Cardinality({i \in 1..Len(credentialDatabase.credentials) :
                                 Requested(credentialDatabase.credentials[i])})
        /\ mdocRequest.dataElements = <<>> => pickerCalls = <<>>

\* doc2 holds ns.b and lacks ns.a, both requested: it is given an entry
C25_Witness ==
    /\ pc = "matched"
    /\ \E e \in 1..Len(mdocRequest.dataElements) :
           CombinedName(mdocRequest.dataElements[e]) = "ns.a"
    /\ \E e \in 1..Len(mdocRequest.dataElements) :
           CombinedName(mdocRequest.dataElements[e]) = "ns.b"
    /\ \E i \in EntryCalls : pickerCalls[i].id = "doc2"


(***************************************************************************)
(* The two users of intentToRetain together: the mdoc matcher on an        *)
(* MdocRequest and DcqlQuery::execute on a query.  Each run is compared    *)
(* with the runs on every request that differs from its own in the         *)
(* intent-to-retain flags only.                                            *)
(***************************************************************************)
\* the queries whose runs are compared: at most one credential set, and
\* credential queries without claim sets, with one, or with two of which
\* the first names an unknown claim
RetainQuery(q) ==
    /\ Len(q.dcqlCredentialSetQueries) <= 1
    /\ \A c \in 1..Len(q.dcqlCredentialQueries) :
           q.dcqlCredentialQueries[c].claimSets \in {<<>>, << <<"x">> >>, << <<"z">>, <<"x">> >>}

InitRetain == InitMdoc \/ (InitDcql /\ RetainQuery(dcqlQuery))

NextRetain == MatchMdoc \/ Execute

SpecRetain == InitRetain /\ [][NextRetain]_vars

\* the requested elements or claims with their flags replaced by `flags`
withIntentToRetain(requested, flags) ==
    [e \in 1..Len(requested) |-> [requested[e] EXCEPT !.intentToRetain = flags[e]]]

\* the MdocRequests that differ from r in the flags only
MdocRequestVariants(r) ==
    {[r EXCEPT !.dataElements = withIntentToRetain(r.dataElements, flags)] :
        flags \in [1..Len(r.dataElements) -> BOOLEAN]}

\* the DcqlQueries that differ from q in the flags of their requested
\* claims only
DcqlQueryVariants(q) ==
    {[q EXCEPT !.dcqlCredentialQueries =
          [c \in 1..Len(q.dcqlCredentialQueries) |->
              [q.dcqlCredentialQueries[c] EXCEPT !.requestedClaims =
                  withIntentToRetain(q.dcqlCredentialQueries[c].requestedClaims, flags[c])]]] :
        flags \in [1..Len(q.dcqlCredentialQueries) -> [1..MaxClaims -> BOOLEAN]]}

\* C23: intentToRetain is carried in the request model but never influences
\* matching: two requests (mdoc data elements or DCQL requested claims) that
\* differ only in their intent-to-retain flags yield the same match
\* decisions, the same DCQL response and the same sequence of picker calls
\* against the same catalog.
C23_IntentToRetainIgnored ==
    /\ pc = "matched" =>
           \A other \in MdocRequestVariants(mdocRequest) :
               /\ \A i \in 1..Len(credentialDatabase.credentials) :
                      matchesRequest(credentialDatabase.credentials[i], other)
                          = matchesRequest(credentialDatabase.credentials[i], mdocRequest)
               /\ mdocForEachCredential(credentialDatabase, other, 1) = pickerCalls
    /\ pc = "executed" =>
           \A other \in DcqlQueryVariants(dcqlQuery) :
               /\ stage1(other, credentialDatabase) = credentialQueryIdToResponse
               /\ execute(other, credentialDatabase) = dcqlResponse

\* a request whose data elements differ in their flags has produced picker
\* calls
C23_Witness ==
    /\ pc = "matched"
    /\ pickerCalls # <<>>
    /\ \E e \in 1..Len(mdocRequest.dataElements) : mdocRequest.dataElements[e].intentToRetain
    /\ \E e \in 1..Len(mdocRequest.dataElements) : ~mdocRequest.dataElements[e].intentToRetain


(***************************************************************************)
(* The set of used documentIds across the passes of the matcher's loop.    *)
(***************************************************************************)
\* the request object is read without undefined behaviour and is skipped:
\* its protocol is not supported or its parser returned no request (r is
\* null), or its protocol is not one of the catalog's
Skipped(requestObject) ==
    /\ requestDefined(requestObject)
    /\ \/ parseRequest(requestObject).isNull
       \/ ~Contains(credentialDatabase.protocols, parseRequest(requestObject).protocol)

\* the entry calls made by the pass that is being taken
NewEntryIds ==
    {pickerCalls'[k].id : k \in {j \in (Len(pickerCalls) + 1)..Len(pickerCalls') :
                                    pickerCalls'[j].fn = "AddStringIdEntry"}}

\* one pass of the loop over the request objects
Pass == pc = "loop" /\ n < Len(requests) /\ n' = n + 1

\* C26: in the matcher entry point a request that is skipped (unsupported
\* protocol, parser returned no request, or pre-flight protocol check
\* failed) leaves the set of already-used documentIds unchanged, so a later
\* request of the envelope that matches the same credential still produces
\* its picker entry; a documentId enters the set only in the step that
\* emits its entry.
C26_SkippedLeavesUsedIds ==
    [][Pass =>
        /\ Skipped(requests[n + 1]) =>
               /\ documentIdsAlreadyUsed' = documentIdsAlreadyUsed
               /\ pickerCalls' = pickerCalls
        /\ documentIdsAlreadyUsed' \ documentIdsAlreadyUsed = NewEntryIds
        /\ (requestDefined(requests[n + 1]) /\ ~Skipped(requests[n + 1])) =>
               \A i \in 1..Len(credentialDatabase.credentials) :
                   (/\ matchesRequest(credentialDatabase.credentials[i],
                                      parseRequest(requests[n + 1]))
                    /\ credentialDatabase.credentials[i].documentId
                           \notin documentIdsAlreadyUsed)
                       => credentialDatabase.credentials[i].documentId \in NewEntryIds
    ]_vars

\* the first request object asks for doc1 over a protocol the catalog does
\* not list and is skipped; the second asks for it over preview and doc1
\* is given its entry in that pass
C26_Witness ==
    /\ pc = "loop"
    /\ n = 2
    /\ credentialDatabase.protocols = <<"preview">>
    /\ requests[1] = RequestObject("openid4vp", DcqlJson("mDL", "a"))
    /\ ~parseRequest(requests[1]).isNull
    /\ \E i \in 1..Len(credentialDatabase.credentials) :
           /\ credentialDatabase.credentials[i].documentId = "doc1"
           /\ matchesRequest(credentialDatabase.credentials[i], parseRequest(requests[1]))
    /\ \E k \in EntryCalls : pickerCalls[k].id = "doc1" /\ pickerCalls[k].n = 1


(***************************************************************************)
(* DcqlQuery::execute and getCredentialCombinations on queries whose ids   *)
(* are declared in any order, whose meta values may be empty strings, and  *)
(* whose credential sets may hold an option without credential ids.        *)
(***************************************************************************)
CredentialQueryWithMeta(id, format, mdocDocType, vctValues) ==
    [id |-> id, format |-> format, mdocDocType |-> mdocDocType, vctValues |-> vctValues,
     requestedClaims |-> <<>>, claimSets |-> <<>>]

\* "a" asks for any mDL, "10" for any pid; "9" is an mdoc query whose
\* doctype_value is the empty string, "E" an SD-JWT query whose vct_values
\* hold the empty string
CredentialQueryPool ==
    { QueryA, QueryB, QueryC,
      CredentialQueryWithMeta("a", "mso_mdoc", "mDL", <<>>),
      CredentialQueryWithMeta("10", "dc+sd-jwt", "", <<"pid">>),
      CredentialQueryWithMeta("9", "mso_mdoc", "", <<>>),
      CredentialQueryWithMeta("E", "dc+sd-jwt", "", <<"">>) }

\* the credential queries of a query carry different ids
CredentialQueryLists ==
    {qs \in SeqsUpTo(CredentialQueryPool, MaxSets) :
        \A i, j \in 1..Len(qs) : qs[i].id = qs[j].id => i = j}

CredentialIdLists ==
    { <<>>,
      << <<>> >>,
      << <<"A">> >>,
      << <<"A", "B">>, <<"A">> >>,
      << <<"B">>, <<>>, <<"A">> >> }

ResponseQueries ==
    { [dcqlCredentialQueries |-> qs, dcqlCredentialSetQueries |-> <<>>] :
      qs \in CredentialQueryLists }
    \cup
    { [dcqlCredentialQueries |-> <<QueryA, QueryB>>, dcqlCredentialSetQueries |-> csqs] :
      csqs \in SeqsUpTo([required : BOOLEAN, options : CredentialIdLists], MaxSets) }

InitResponse ==
    /\ pc = "query"
    /\ credentialDatabase \in DcqlCatalogs
    /\ dcqlQuery \in ResponseQueries
    /\ credentialQueryIdToResponse = <<>>
    /\ dcqlResponse = nullopt
    /\ consolidatedCredentialSets = <<>>
    /\ pathCombinations = <<>>
    /\ combinations = <<>>
    /\ MatcherIdle
    /\ EmitterIdle
    /\ CborIdle

NextResponse == Execute \/ GetCredentialCombinations

SpecResponse == InitResponse /\ [][NextResponse]_vars

\* path k leaves set s out, or chooses an option of it without members
ContributesNothing(k, s) ==
    \/ pathCombinations[k][s] = Len(consolidatedCredentialSets[s].options)
    \/ consolidatedCredentialSets[s].options[pathCombinations[k][s] + 1].members = <<>>

\* C27: for every response returned by DcqlQuery::execute,
\* getCredentialCombinations returns at least one combination, and a
\* combination has zero elements iff every credential set is either
\* omitted in it or chosen at an option with zero members; a response whose
\* credential sets are all optional ends with a zero-element combination,
\* and a query with no credential queries and no credential sets yields
\* exactly one zero-element combination.
C27_ZeroElementCombinations ==
    Combined =>
        /\ Len(combinations) >= 1
        /\ Len(combinations) = Len(pathCombinations)
        /\ \A k \in 1..Len(combinations) :
               combinations[k].elements = <<>>
                   <=> \A s \in 1..Len(consolidatedCredentialSets) : ContributesNothing(k, s)
        /\ (\A s \in 1..Len(ResponseSets) : ResponseSets[s].optional) =>
               combinations[Len(combinations)].elements = <<>>
        /\ (CredentialQueries = <<>> /\ CredentialSetQueriesOfQuery = <<>>) =>
               /\ Len(combinations) = 1
               /\ combinations[1].elements = <<>>

\* a required set is chosen at its option without credential ids, and the
\* combination has no element
C27_Witness ==
    /\ Combined
    /\ \E k \in 1..Len(combinations) :
           /\ combinations[k].elements = <<>>
           /\ \E s \in 1..Len(consolidatedCredentialSets) :
                  /\ ~consolidatedCredentialSets[s].optional
                  /\ pathCombinations[k][s] < Len(consolidatedCredentialSets[s].options)
    /\ \E k \in 1..Len(combinations) : combinations[k].elements # <<>>

\* the match names a credential of the catalog and claims of that credential
MatchOfCatalog(match) ==
    /\ match.credential \in 1..Len(Catalog)
    /\ \A c \in 1..Len(match.claims) :
           match.claims[c] \in DOMAIN Catalog[match.credential].claims

\* the member or element holds at least one match, all of the catalog
HoldsMatches(member) ==
    /\ member.matches # <<>>
    /\ \A m \in 1..Len(member.matches) : MatchOfCatalog(member.matches[m])

AllMembersHoldMatches(sets) ==
    \A s \in 1..Len(sets) : \A o \in 1..Len(sets[s].options) :
        \A m \in 1..Len(sets[s].options[o].members) :
            HoldsMatches(sets[s].options[o].members[m])

\* C28: in every response returned by DcqlQuery::execute every member of
\* every option has at least one match, every match's credential is an
\* entry of the catalog passed to execute, and every claim of a match is a
\* claim of that match's own credential; consolidation and combination
\* enumeration preserve this, so every element of every combination has at
\* least one match.
C28_MembersHoldCatalogMatches ==
    /\ (Executed /\ dcqlResponse.has_value) => AllMembersHoldMatches(ResponseSets)
    /\ Combined =>
           /\ AllMembersHoldMatches(consolidatedCredentialSets)
           /\ \A k \in 1..Len(combinations) :
                  \A e \in 1..Len(combinations[k].elements) :
                      HoldsMatches(combinations[k].elements[e])

\* consolidation has merged two single-member options, and a combination
\* holds two elements
C28_Witness ==
    /\ Combined
    /\ consolidatedCredentialSets # ResponseSets
    /\ \E k \in 1..Len(combinations) : Len(combinations[k].elements) >= 2
    /\ \E k \in 1..Len(combinations) :
           \E e \in 1..Len(combinations[k].elements) :
               \E m \in 1..Len(combinations[k].elements[e].matches) :
                   combinations[k].elements[e].matches[m].claims # <<>>

\* the bytes of the credential-query ids of the model
IdBytes(id) ==
    CASE id = "10" -> <<49, 48>>
      [] id = "9" -> <<57>>
      [] id = "A" -> <<65>>
      [] id = "B" -> <<66>>
      [] id = "C" -> <<67>>
      [] id = "E" -> <<69>>
      [] id = "a" -> <<97>>

\* the orderings of the ids of the credential queries in ascending
\* byte-wise order (one ordering, as the ids differ)
AscendingIds ==
    {ids \in [1..Len(CredentialQueries) -> {CredentialQueries[i].id :
                                               i \in 1..Len(CredentialQueries)}] :
        \A i, j \in 1..Len(CredentialQueries) :
            i < j => lexicographical_compare(IdBytes(ids[i]), IdBytes(ids[j]))}

\* C29: when the query has no credential_sets, the order of the synthetic
\* credential sets in the response is the ascending byte-wise order of the
\* credential-query ids, independent of the order in which the credential
\* queries were declared; the order of the elements of the emitted
\* combination follows id order, not declaration order.
C29_SyntheticSetsInIdOrder ==
    (Executed /\ CredentialSetQueriesOfQuery = <<>> /\ dcqlResponse.has_value) =>
        /\ AscendingIds # {}
        /\ \A ids \in AscendingIds :
               /\ Len(ResponseSets) = Len(CredentialQueries)
               /\ \A i \in 1..Len(ResponseSets) : ResponseSets[i] = SyntheticSet(ids[i])
               /\ Combined =>
                      /\ Len(combinations) = 1
                      /\ Len(combinations[1].elements) = Len(CredentialQueries)
                      /\ \A i \in 1..Len(CredentialQueries) :
                             combinations[1].elements[i].matches = Stage1Matches(ids[i])

\* "a" is declared before "10": the element of "10" comes first
C29_Witness ==
    /\ Combined
    /\ CredentialSetQueriesOfQuery = <<>>
    /\ Len(CredentialQueries) = 2
    /\ CredentialQueries[1].id = "a"
    /\ CredentialQueries[2].id = "10"
    /\ Len(combinations) = 1
    /\ combinations[1].elements[1].matches = Stage1Matches("10")
    /\ combinations[1].elements[2].matches = Stage1Matches("a")
    /\ Stage1Matches("10") # Stage1Matches("a")

\* C30: for every catalog and every DCQL query, a credential with no mdoc
\* projection (empty mdocDocType) is never recorded as a match of an
\* mso_mdoc / mso_mdoc_zk credential query, a credential with no VC
\* projection (empty vcVct) is never recorded as a match of a dc+sd-jwt
\* credential query, and a credential query with any other format has no
\* matches.
C30_MatchesHaveProjection ==
    Executed =>
        \A id \in DOMAIN credentialQueryIdToResponse :
            LET query == CredentialQueries[credentialQueryIdToResponse[id].query]
                matches == credentialQueryIdToResponse[id].matches
            IN /\ query.format \in {"mso_mdoc", "mso_mdoc_zk"} =>
                      \A m \in 1..Len(matches) :
                          Catalog[matches[m].credential].mdocDocType # ""
               /\ query.format = "dc+sd-jwt" =>
                      \A m \in 1..Len(matches) :
                          Catalog[matches[m].credential].vcVct # ""
               /\ query.format \notin {"mso_mdoc", "mso_mdoc_zk", "dc+sd-jwt"} =>
                      matches = <<>>

====
